---- MODULE Spec2Model ----
(***************************************************************************)
(* A model of the valijson validation core: the ValidationResults error    *)
(* queue, the Subschema constraint lists and the recursive                 *)
(* ValidationVisitor that validates a target document against them.        *)
(*                                                                         *)
(* Strings are sequences of one-character strings, so that escaping and    *)
(* tokenising of JSON Pointers is computed character by character.         *)
(***************************************************************************)
EXTENDS Integers, Sequences, FiniteSets, TLC

VARIABLES
    m_errors,     \* ValidationResults::m_errors, the FIFO queue of the caller's sink
    pushed,       \* history: every Error pushed on m_errors by its owner, in order
    popped,       \* history: every Error handed out by a successful popError
    popRet,       \* history: what the last popError returned ("none" before any)
    lastPath,     \* history: the Path given to the last pushError(path, description)
    constraints,  \* Subschema::constraints of every Subschema of the arena
    phase,        \* "build" while the Schema is populated, "ready" once a Validator holds it
    strictTypes,  \* Validator::strictTypes
    call,         \* history: the last Validator::validate call and what it returned
    prev,         \* history: the call before it, kept when it had the same arguments
    pool,         \* the constraints the schema being built draws from
    doc,          \* the document the caller has parsed
    threads,      \* the validations in flight on the shared Schema (concurrent use)
    subschemaSet, \* Schema::subschemaSet, the Subschemas the Schema has created and owns
    raised,       \* history: the last operation on the arena and the usage error it threw
    resolved      \* history: the last resolveJsonPointer call and how it ended

vars == <<m_errors, pushed, popped, popRet, lastPath, constraints, phase,
          strictTypes, call, prev, pool, doc, threads, subschemaSet, raised, resolved>>

resultsVars == <<m_errors, pushed, popped, popRet, lastPath>>
validatorVars == <<constraints, phase, strictTypes, call, prev, pool, doc>>
arenaVars == <<subschemaSet, raised, resolved>>

----------------------------------------------------------------------------
(* Bounds *)

MaxErrors == 3        \* pushError calls in one run of the queue
MaxNameLen == 1       \* characters in a Path segment name built from Chars
MaxPathLen == 2       \* segments in one Path
MaxConstraints == 2   \* constraints attached to the root Subschema

----------------------------------------------------------------------------
(* Strings *)

Chars == {"a", "/", "~"}

\* Longer names whose escaped form holds the sequences "~0" and "~1" side by side
SpecialNames == {<<"~", "1">>, <<"~", "0">>, <<"0", "1">>, <<"/", "~">>}

RECURSIVE StringsUpTo(_)
StringsUpTo(n) ==
    IF n = 0 THEN {<<>>}
    ELSE LET shorter == StringsUpTo(n - 1)
         IN shorter \cup {Append(s, c) : s \in {t \in shorter : Len(t) = n - 1}, c \in Chars}

Names == StringsUpTo(MaxNameLen) \cup SpecialNames

RECURSIVE Concat(_)
Concat(seqs) == IF seqs = <<>> THEN <<>> ELSE Head(seqs) \o Concat(Tail(seqs))

----------------------------------------------------------------------------
(* ValidationResults *)

Kinds == {"kArray", "kObject"}

Segments == [kind : Kinds, name : Names]

RECURSIVE PathsUpTo(_)
PathsUpTo(n) ==
    IF n = 0 THEN {<<>>}
    ELSE LET shorter == PathsUpTo(n - 1)
         IN shorter \cup {Append(p, s) : p \in {q \in shorter : Len(q) = n - 1}, s \in Segments}

Paths == PathsUpTo(MaxPathLen)

RootSentinel == <<"<", "r", "o", "o", "t", ">">>

\* escapeJsonPointerToken without its case for the slash
RECURSIVE escapeJsonPointerToken_noSlash(_)
escapeJsonPointerToken_noSlash(token) ==
    IF token = <<>> THEN <<>>
    ELSE LET ch == Head(token)
             out == CASE ch = "~" -> <<"~", "0">>
                      [] OTHER    -> <<ch>>
         IN out \o escapeJsonPointerToken_noSlash(Tail(token))

RECURSIVE escapeJsonPointerToken(_)
escapeJsonPointerToken(token) ==
    IF token = <<>> THEN <<>>
    ELSE LET ch == Head(token)
             out == CASE ch = "~" -> <<"~", "0">>
                      [] ch = "/" -> <<"~", "1">>
                      [] OTHER    -> <<ch>>
         IN out \o escapeJsonPointerToken(Tail(token))

contextEntry(segment) ==
    IF segment.kind = "kObject"
    THEN <<"[", "\"">> \o segment.name \o <<"\"", "]">>
    ELSE <<"[">> \o segment.name \o <<"]">>

toContext(path) ==
    <<RootSentinel>> \o [i \in 1..Len(path) |-> contextEntry(path[i])]

toJsonPointer(path) ==
    Concat([i \in 1..Len(path) |-> <<"/">> \o escapeJsonPointerToken(path[i].name)])

MakeError(path, description) ==
    [context |-> toContext(path), description |-> description,
     jsonPointer |-> toJsonPointer(path)]

pushBack(queue, error) == Append(queue, error)

\* pop_front taking the newest element off instead of the oldest
popFront_dropsBack(queue) == SubSeq(queue, 1, Len(queue) - 1)

popFront(queue) == Tail(queue)

front(queue) == Head(queue)

----------------------------------------------------------------------------
(* JSON Pointer reference tokens (internal/json_pointer.hpp) *)

RECURSIVE replace_all(_, _, _)
replace_all(str, search, format) ==
    IF Len(str) < Len(search) THEN str
    ELSE IF SubSeq(str, 1, Len(search)) = search
         THEN format \o replace_all(SubSeq(str, Len(search) + 1, Len(str)), search, format)
         ELSE <<Head(str)>> \o replace_all(Tail(str), search, format)

extractReferenceToken(token) ==
    replace_all(replace_all(token, <<"~", "1">>, <<"/">>), <<"~", "0">>, <<"~">>)

\* std::find(first, end, '/') over str: the position of the first '/' at or
\* after first, or Len(str) + 1
RECURSIVE findSlash(_, _)
findSlash(str, first) ==
    IF first > Len(str) THEN Len(str) + 1
    ELSE IF str[first] = "/" THEN first
    ELSE findSlash(str, first + 1)

\* The reference tokens resolveJsonPointer extracts from jsonPointer, in the
\* order it consumes them; err when a token does not begin with a slash.
RECURSIVE referenceTokens(_)
referenceTokens(jsonPointer) ==
    IF jsonPointer = <<>> THEN [err |-> FALSE, tokens |-> <<>>]
    ELSE IF Head(jsonPointer) # "/" THEN [err |-> TRUE, tokens |-> <<>>]
    ELSE LET jsonPointerNext == findSlash(jsonPointer, 2)
             referenceToken == extractReferenceToken(
                                   SubSeq(jsonPointer, 2, jsonPointerNext - 1))
             rest == referenceTokens(
                         SubSeq(jsonPointer, jsonPointerNext, Len(jsonPointer)))
         IN [err |-> rest.err, tokens |-> <<referenceToken>> \o rest.tokens]

----------------------------------------------------------------------------
(* Target documents as seen through an adapter *)

\* A JSON value: its authoritative type tag t, and the payload that goes with
\* it. Numbers are held in halves (n = 2 * value), so that 2.5 is n = 5;
\* a boolean is n = 1 or 0; s is string text; a the array elements in order;
\* o the object members in order, each [k |-> name, v |-> value].
Node(t, n, s, a, o) == [t |-> t, n |-> n, s |-> s, a |-> a, o |-> o]

JNull == Node("null", 0, <<>>, <<>>, <<>>)
JBool(b) == Node("bool", IF b THEN 1 ELSE 0, <<>>, <<>>, <<>>)
JInt(i) == Node("int", 2 * i, <<>>, <<>>, <<>>)
JDouble(halves) == Node("dbl", halves, <<>>, <<>>, <<>>)
JString(s) == Node("str", 0, s, <<>>, <<>>)
JArray(a) == Node("arr", 0, <<>>, a, <<>>)
JObject(o) == Node("obj", 0, <<>>, <<>>, o)
Member(k, v) == [k |-> k, v |-> v]

isArray(node) == node.t = "arr"
isBool(node) == node.t = "bool"
isDouble(node) == node.t = "dbl"
isInteger(node) == node.t = "int"
isNull(node) == node.t = "null"
isNumber(node) == node.t \in {"int", "dbl"}
isObject(node) == node.t = "obj"
isString(node) == node.t = "str"

Digits == {"0", "1", "2", "3", "4", "5", "6", "7", "8", "9"}

\* StdStringAdapter's coercion predicates over its string value
StdString_maybeBool(value) ==
    value = <<"t", "r", "u", "e">> \/ value = <<"f", "a", "l", "s", "e">>
StdString_maybeDouble(value) ==
    value # <<>> /\ \A i \in 1..Len(value) : value[i] \in Digits
StdString_maybeInteger(value) ==
    value # <<>> /\ \A i \in 1..Len(value) : value[i] \in Digits
StdString_maybeNull(value) == value = <<>>
StdString_maybeObject(value) == value = <<>>

\* The coercion predicates of a document node: the authoritative tag, or what
\* a string may loosely stand for
maybeArray(node) == isArray(node)
maybeBool(node) == isBool(node) \/ (isString(node) /\ StdString_maybeBool(node.s))
maybeDouble(node) == isNumber(node) \/ (isString(node) /\ StdString_maybeDouble(node.s))
maybeInteger(node) == isInteger(node) \/ (isString(node) /\ StdString_maybeInteger(node.s))
maybeNull(node) == isNull(node) \/ (isString(node) /\ StdString_maybeNull(node.s))
maybeObject(node) == isObject(node) \/ (isString(node) /\ StdString_maybeObject(node.s))
maybeString(node) == isString(node)

\* Accessors: a string coerced to a number reads as 0 and a string coerced to
\* an object reads as the empty object (StdStringAdapter)
asDouble(node) == IF isString(node) THEN 0 ELSE node.n
\* asInteger(result): an integer node gives its value and a string coerced
\* to an integer reads as 0
asInteger(node) == IF isString(node) THEN 0 ELSE node.n \div 2
asString(node) == node.s
asArray(node) == node.a
asObject(node) == IF isString(node) THEN <<>> ELSE node.o

\* Strict equality of two values
equalTo(node, other) == node = other

\* The number of code points of a string
u8_strlen(s) == Len(s)

\* Whether text holds pattern as a substring: a search for a literal pattern
regex_search(text, pattern) ==
    \E i \in 1..(Len(text) + 1) :
        /\ i + Len(pattern) - 1 <= Len(text)
        /\ SubSeq(text, i, i + Len(pattern) - 1) = pattern

findMember(object, name) == \E i \in 1..Len(object) : object[i].k = name

----------------------------------------------------------------------------
(* Constraints *)

\* names, properties and patternProperties are held in the order of the
\* std::set or std::map that the constraint keeps them in; a Subschema
\* pointer that is NULL is 0
NoConstraint ==
    [kind |-> "none", subschemas |-> <<>>, extra |-> 0, num |-> 0,
     flag |-> FALSE, types |-> {}, pattern |-> <<>>, names |-> <<>>,
     properties |-> <<>>, patternProperties |-> <<>>, values |-> <<>>,
     propertyDependencies |-> <<>>, schemaDependencies |-> <<>>]

AllOfConstraint(subs) == [NoConstraint EXCEPT !.kind = "allOf", !.subschemas = subs]
AnyOfConstraint(subs) == [NoConstraint EXCEPT !.kind = "anyOf", !.subschemas = subs]
OneOfConstraint(subs) == [NoConstraint EXCEPT !.kind = "oneOf", !.subschemas = subs]
NotConstraint(schema) == [NoConstraint EXCEPT !.kind = "not", !.subschemas = <<schema>>]
TypeConstraint(jsonTypes, schemas) ==
    [NoConstraint EXCEPT !.kind = "type", !.types = jsonTypes, !.subschemas = schemas]
SingularItemsConstraint(itemsSubschema) ==
    [NoConstraint EXCEPT !.kind = "singularItems", !.extra = itemsSubschema]
MaximumConstraint(maximum, exclusiveMaximum) ==
    [NoConstraint EXCEPT !.kind = "maximum", !.num = maximum, !.flag = exclusiveMaximum]
MinimumConstraint(minimum, exclusiveMinimum) ==
    [NoConstraint EXCEPT !.kind = "minimum", !.num = minimum, !.flag = exclusiveMinimum]
MaxItemsConstraint(maxItems) == [NoConstraint EXCEPT !.kind = "maxItems", !.num = maxItems]
MinItemsConstraint(minItems) == [NoConstraint EXCEPT !.kind = "minItems", !.num = minItems]
MaxLengthConstraint(maxLength) == [NoConstraint EXCEPT !.kind = "maxLength", !.num = maxLength]
MinLengthConstraint(minLength) == [NoConstraint EXCEPT !.kind = "minLength", !.num = minLength]
MaxPropertiesConstraint(maxProperties) ==
    [NoConstraint EXCEPT !.kind = "maxProperties", !.num = maxProperties]
MinPropertiesConstraint(minProperties) ==
    [NoConstraint EXCEPT !.kind = "minProperties", !.num = minProperties]
PatternConstraint(pattern) == [NoConstraint EXCEPT !.kind = "pattern", !.pattern = pattern]
UniqueItemsConstraint == [NoConstraint EXCEPT !.kind = "uniqueItems"]
\* value is a variant: isInt64 says that it holds an int64_t, and then value
\* is that integer; otherwise it holds a double, and value counts halves
MultipleOfConstraint(value, isInt64) ==
    [NoConstraint EXCEPT !.kind = "multipleOf", !.num = value, !.flag = isInt64]
EnumConstraint(values) == [NoConstraint EXCEPT !.kind = "enum", !.values = values]
RequiredConstraint(requiredProperties) ==
    [NoConstraint EXCEPT !.kind = "required", !.names = requiredProperties]
LinearItemsConstraint(itemSubschemas, additionalItemsSubschema) ==
    [NoConstraint EXCEPT !.kind = "linearItems", !.subschemas = itemSubschemas,
                         !.extra = additionalItemsSubschema]
PropertySchema(name, subschema) == [name |-> name, subschema |-> subschema]
\* One entry of the map from a property name to the set of the names it
\* depends on
PropertyDependency(name, dependencyNames) == [name |-> name, names |-> dependencyNames]
DependenciesConstraint(propertyDependencies, schemaDependencies) ==
    [NoConstraint EXCEPT !.kind = "dependencies",
                         !.propertyDependencies = propertyDependencies,
                         !.schemaDependencies = schemaDependencies]
PropertiesConstraint(properties, patternProperties, additionalProperties) ==
    [NoConstraint EXCEPT !.kind = "properties", !.properties = properties,
                         !.patternProperties = patternProperties,
                         !.extra = additionalProperties]

----------------------------------------------------------------------------
(* ValidationVisitor *)

\* A visitor binds one target, its context, the strict-types flag and an
\* optional results sink: hs says that the results pointer is set. ub is what
\* the build does where the code's behaviour is undefined.
Visitor(target, context, strict, hs, ub) ==
    [target |-> target, context |-> context, strictTypes |-> strict,
     hs |-> hs, ub |-> ub, depth |-> 0]

\* A visitor that a visit of V constructs; depth is not a member of the
\* class: it records how many invocations of validateSchema are on the call
\* stack where the visitor runs
ValidationVisitor(V, target, context, hs) ==
    [Visitor(target, context, V.strictTypes, hs, V.ub) EXCEPT !.depth = V.depth]

\* What a validation threads through its steps: res, the errors of the sink
\* the results pointer names; log, the constraints visited so far, in order;
\* crash, set once the process has faulted.
RunState(res) == [res |-> res, log |-> <<>>, crash |-> FALSE]

Ret(ok, st) == [ok |-> ok, st |-> st]

pushError(st, path, description) ==
    [st EXCEPT !.res = pushBack(@, MakeError(path, description))]

\* return false; with no error pushed
Fail_silent(V, st, description) == Ret(FALSE, st)

\* if (results) { results->pushError(context, description); } return false;
Fail(V, st, description) ==
    Ret(FALSE, IF V.hs THEN pushError(st, V.context, description) ELSE st)

NumText(halves) ==
    LET abs == IF halves < 0 THEN 0 - halves ELSE halves
        txt == IF abs % 2 = 0 THEN ToString(abs \div 2)
               ELSE ToString(abs \div 2) \o ".5"
    IN IF halves < 0 THEN "-" \o txt ELSE txt

arrayContext(V, index) ==
    Append(V.context, [kind |-> "kArray", name |-> <<ToString(index)>>])

objectContext(V, name) ==
    Append(V.context, [kind |-> "kObject", name |-> name])

RECURSIVE validateSchema(_, _, _)
RECURSIVE validationCallback(_, _, _, _)

(* allOf, anyOf, oneOf *)

\* The functor handed to applyToSubschemas, with the variables its pointers
\* name: results is "outer" for the visitor's sink, "child" for the local
\* sink of oneOf, "null" for none
SubschemasFunctor(continueOnSuccess, continueOnFailure, results, hasNum, hasValidated) ==
    [continueOnSuccess |-> continueOnSuccess, continueOnFailure |-> continueOnFailure,
     results |-> results, hasNum |-> hasNum, hasValidated |-> hasValidated]

SubschemasAcc(st) == [st |-> st, child |-> <<>>, numValidated |-> 0, validated |-> TRUE]

ValidateSubschemas(V, fn, index, subschema, acc) ==
    LET r == validateSchema(V, subschema, acc.st)
        description == "Failed to validate against child schema #"
                            \o ToString(index) \o "."
    IN IF r.ok
       THEN [continue |-> fn.continueOnSuccess,
             acc |-> [acc EXCEPT !.st = r.st,
                                 !.numValidated = IF fn.hasNum THEN @ + 1 ELSE @]]
       ELSE [continue |-> fn.continueOnFailure,
             acc |-> [acc EXCEPT
                        !.validated = IF fn.hasValidated THEN FALSE ELSE @,
                        !.st = IF fn.results = "outer"
                               THEN pushError(r.st, V.context, description)
                               ELSE r.st,
                        !.child = IF fn.results = "child"
                                  THEN pushBack(@, MakeError(V.context, description))
                                  ELSE @]]

RECURSIVE applyToSubschemas(_, _, _, _, _)
applyToSubschemas(V, subschemas, index, fn, acc) ==
    IF index >= Len(subschemas) THEN acc
    ELSE LET r == ValidateSubschemas(V, fn, index, subschemas[index + 1], acc)
         IN IF r.continue
            THEN applyToSubschemas(V, subschemas, index + 1, fn, r.acc)
            ELSE r.acc

\* visitAllOf that records the failures of a collect-all run and never
\* clears its validated flag
visitAllOf_forgetsFailure(V, constraint, st) ==
    LET acc == applyToSubschemas(V, constraint.subschemas, 0,
                   SubschemasFunctor(TRUE, FALSE, IF V.hs THEN "outer" ELSE "null",
                                     FALSE, TRUE),
                   SubschemasAcc(st))
    IN Ret(IF V.hs THEN TRUE ELSE acc.validated, acc.st)

visitAllOf(V, constraint, st) ==
    LET acc == applyToSubschemas(V, constraint.subschemas, 0,
                   SubschemasFunctor(TRUE, FALSE, IF V.hs THEN "outer" ELSE "null",
                                     FALSE, TRUE),
                   SubschemasAcc(st))
    IN Ret(acc.validated, acc.st)

visitAnyOf(V, constraint, st) ==
    LET acc == applyToSubschemas(V, constraint.subschemas, 0,
                   SubschemasFunctor(FALSE, TRUE, IF V.hs THEN "outer" ELSE "null",
                                     TRUE, FALSE),
                   SubschemasAcc(st))
    IN IF acc.numValidated = 0 /\ V.hs
       THEN Ret(FALSE, pushError(acc.st, V.context,
                "Failed to validate against any child schemas allowed by anyOf constraint."))
       ELSE Ret(acc.numValidated > 0, acc.st)

\* while (childResults->popError(childError)) results->pushError(childError...)
RECURSIVE drainChildResults(_, _)
drainChildResults(childResults, res) ==
    IF childResults = <<>> THEN res
    ELSE drainChildResults(popFront(childResults), pushBack(res, front(childResults)))

\* visitOneOf accepting any number of matching children but zero
visitOneOf_atLeastOne(V, constraint, st) ==
    LET acc == applyToSubschemas(V, constraint.subschemas, 0,
                   SubschemasFunctor(TRUE, TRUE, IF V.hs THEN "child" ELSE "null",
                                     TRUE, FALSE),
                   SubschemasAcc(st))
    IN IF acc.numValidated = 0
       THEN IF V.hs
            THEN Ret(FALSE, pushError(
                     [acc.st EXCEPT !.res = drainChildResults(acc.child, @)],
                     V.context,
                     "Failed to validate against any child schemas allowed by oneOf constraint."))
            ELSE Ret(FALSE, acc.st)
       ELSE Ret(TRUE, acc.st)

\* visitOneOf whose drain loop pops the visitor's own sink: what the sink
\* held is handed back behind the child errors, out of place
visitOneOf_popsOuter(V, constraint, st) ==
    LET acc == applyToSubschemas(V, constraint.subschemas, 0,
                   SubschemasFunctor(TRUE, TRUE, IF V.hs THEN "child" ELSE "null",
                                     TRUE, FALSE),
                   SubschemasAcc(st))
    IN IF acc.numValidated = 0
       THEN IF V.hs
            THEN Ret(FALSE, pushError(
                     [acc.st EXCEPT !.res = drainChildResults(@, acc.child)],
                     V.context,
                     "Failed to validate against any child schemas allowed by oneOf constraint."))
            ELSE Ret(FALSE, acc.st)
       ELSE IF acc.numValidated # 1
       THEN Fail(V, acc.st, "Failed to validate against exactly one child schema.")
       ELSE Ret(TRUE, acc.st)

visitOneOf(V, constraint, st) ==
    LET acc == applyToSubschemas(V, constraint.subschemas, 0,
                   SubschemasFunctor(TRUE, TRUE, IF V.hs THEN "child" ELSE "null",
                                     TRUE, FALSE),
                   SubschemasAcc(st))
    IN IF acc.numValidated = 0
       THEN IF V.hs
            THEN Ret(FALSE, pushError(
                     [acc.st EXCEPT !.res = drainChildResults(acc.child, @)],
                     V.context,
                     "Failed to validate against any child schemas allowed by oneOf constraint."))
            ELSE Ret(FALSE, acc.st)
       ELSE IF acc.numValidated # 1
       THEN Fail(V, acc.st, "Failed to validate against exactly one child schema.")
       ELSE Ret(TRUE, acc.st)

\* visitNot validating the child with the visitor's own sink
visitNot_sharesSink(V, constraint, st) ==
    LET v == ValidationVisitor(V, V.target, V.context, V.hs)
        r == validateSchema(v, constraint.subschemas[1], st)
    IN IF r.ok
       THEN Fail(V, r.st,
                "Target should not validate against schema specified in 'not' constraint.")
       ELSE Ret(TRUE, r.st)

visitNot(V, constraint, st) ==
    LET v == ValidationVisitor(V, V.target, V.context, FALSE)
        r == validateSchema(v, constraint.subschemas[1], st)
    IN IF r.ok
       THEN Fail(V, r.st,
                "Target should not validate against schema specified in 'not' constraint.")
       ELSE Ret(TRUE, r.st)

(* type *)

matchesJsonType(V, jsonType) ==
    CASE jsonType = "any"     -> TRUE
      [] jsonType = "array"   -> isArray(V.target)
      [] jsonType = "boolean" -> isBool(V.target) \/ (~V.strictTypes /\ maybeBool(V.target))
      [] jsonType = "integer" -> isInteger(V.target) \/ (~V.strictTypes /\ maybeInteger(V.target))
      [] jsonType = "null"    -> isNull(V.target) \/ (~V.strictTypes /\ maybeNull(V.target))
      [] jsonType = "number"  -> isNumber(V.target) \/ (~V.strictTypes /\ maybeDouble(V.target))
      [] jsonType = "object"  -> isObject(V.target)
      [] jsonType = "string"  -> isString(V.target)

\* BOOST_FOREACH over constraint.schemas: true at the first that validates
RECURSIVE typeSchemas(_, _, _, _)
typeSchemas(V, schemas, i, st) ==
    IF i > Len(schemas) THEN Ret(FALSE, st)
    ELSE LET r == validateSchema(V, schemas[i], st)
         IN IF r.ok THEN r ELSE typeSchemas(V, schemas, i + 1, r.st)

visitType(V, constraint, st) ==
    IF \E jsonType \in constraint.types : matchesJsonType(V, jsonType)
    THEN Ret(TRUE, st)
    ELSE LET r == typeSchemas(V, constraint.subschemas, 1, st)
         IN IF r.ok THEN r
            ELSE Fail(V, r.st, "Value type not permitted by 'type' constraint.")

(* maximum, minimum and the size bounds *)

visitMaximum(V, constraint, st) ==
    IF (V.strictTypes /\ ~isNumber(V.target)) \/ ~maybeDouble(V.target)
    THEN Ret(TRUE, st)
    ELSE IF constraint.flag
    THEN IF asDouble(V.target) >= constraint.num
         THEN Fail(V, st, "Expected number less than " \o NumText(constraint.num))
         ELSE Ret(TRUE, st)
    ELSE IF asDouble(V.target) > constraint.num
         THEN Fail(V, st, "Expected number less than or equal to" \o NumText(constraint.num))
         ELSE Ret(TRUE, st)

\* visitMinimum whose guard tests the coercion predicate alone
visitMinimum_noStrictGuard(V, constraint, st) ==
    IF ~maybeDouble(V.target)
    THEN Ret(TRUE, st)
    ELSE IF constraint.flag
    THEN IF asDouble(V.target) <= constraint.num
         THEN Fail(V, st, "Expected number greater than " \o NumText(constraint.num))
         ELSE Ret(TRUE, st)
    ELSE IF asDouble(V.target) < constraint.num
         THEN Fail(V, st, "Expected number greater than or equal to" \o NumText(constraint.num))
         ELSE Ret(TRUE, st)

visitMinimum(V, constraint, st) ==
    IF (V.strictTypes /\ ~isNumber(V.target)) \/ ~maybeDouble(V.target)
    THEN Ret(TRUE, st)
    ELSE IF constraint.flag
    THEN IF asDouble(V.target) <= constraint.num
         THEN Fail(V, st, "Expected number greater than " \o NumText(constraint.num))
         ELSE Ret(TRUE, st)
    ELSE IF asDouble(V.target) < constraint.num
         THEN Fail(V, st, "Expected number greater than or equal to" \o NumText(constraint.num))
         ELSE Ret(TRUE, st)

visitMaxItems(V, constraint, st) ==
    IF (V.strictTypes /\ ~isArray(V.target)) \/ ~maybeArray(V.target)
    THEN Ret(TRUE, st)
    ELSE IF Len(asArray(V.target)) <= constraint.num
    THEN Ret(TRUE, st)
    ELSE Fail(V, st, "Array should contain no more than "
                        \o ToString(constraint.num) \o " elements.")

visitMinItems(V, constraint, st) ==
    IF (V.strictTypes /\ ~isArray(V.target)) \/ ~maybeArray(V.target)
    THEN Ret(TRUE, st)
    ELSE IF Len(asArray(V.target)) >= constraint.num
    THEN Ret(TRUE, st)
    ELSE Fail(V, st, "Array should contain no fewer than "
                        \o ToString(constraint.num) \o " elements.")

visitMaxLength(V, constraint, st) ==
    IF (V.strictTypes /\ ~isString(V.target)) \/ ~maybeString(V.target)
    THEN Ret(TRUE, st)
    ELSE IF u8_strlen(asString(V.target)) <= constraint.num
    THEN Ret(TRUE, st)
    ELSE Fail(V, st, "String should be no more than "
                        \o ToString(constraint.num) \o " characters in length.")

visitMinLength(V, constraint, st) ==
    IF (V.strictTypes /\ ~isString(V.target)) \/ ~maybeString(V.target)
    THEN Ret(TRUE, st)
    ELSE IF u8_strlen(asString(V.target)) >= constraint.num
    THEN Ret(TRUE, st)
    ELSE Fail(V, st, "String should be no fewer than "
                        \o ToString(constraint.num) \o " characters in length.")

visitMaxProperties(V, constraint, st) ==
    IF (V.strictTypes /\ ~isObject(V.target)) \/ ~maybeObject(V.target)
    THEN Ret(TRUE, st)
    ELSE IF Len(asObject(V.target)) <= constraint.num
    THEN Ret(TRUE, st)
    ELSE Fail(V, st, "Object should have no more than"
                        \o ToString(constraint.num) \o " properties.")

visitMinProperties(V, constraint, st) ==
    IF (V.strictTypes /\ ~isObject(V.target)) \/ ~maybeObject(V.target)
    THEN Ret(TRUE, st)
    ELSE IF Len(asObject(V.target)) >= constraint.num
    THEN Ret(TRUE, st)
    ELSE Fail(V, st, "Object should have no fewer than"
                        \o ToString(constraint.num) \o " properties.")

visitPattern(V, constraint, st) ==
    IF (V.strictTypes /\ ~isString(V.target)) \/ ~maybeString(V.target)
    THEN Ret(TRUE, st)
    ELSE IF ~regex_search(asString(V.target), constraint.pattern)
    THEN Fail(V, st, "Failed to match regex specified by 'pattern' constraint.")
    ELSE Ret(TRUE, st)

(* items *)

\* The element of a one-element set. { F(x) : x \in {e} } evaluates e once and
\* gives F its value, where LET x == e IN F(x) evaluates e at every use of x.
Only(S) == CHOOSE x \in S : TRUE

\* What a loop over elements carries: returned is set when the loop has left
\* the function with "return false"
LoopAcc(st) == [st |-> st, validated |-> TRUE, returned |-> FALSE]

RECURSIVE singularItems(_, _, _, _)
singularItems(V, itemsSubschema, index, acc) ==
    IF index >= Len(V.target.a) THEN acc
    ELSE LET validationVisitor == ValidationVisitor(V, V.target.a[index + 1],
                                                    arrayContext(V, index), V.hs)
             r == validateSchema(validationVisitor, itemsSubschema, acc.st)
         IN IF r.ok
            THEN singularItems(V, itemsSubschema, index + 1, [acc EXCEPT !.st = r.st])
            ELSE IF V.hs
            THEN singularItems(V, itemsSubschema, index + 1,
                     [acc EXCEPT !.validated = FALSE,
                                 !.st = pushError(r.st, V.context,
                                            "Failed to validate item #"
                                                \o ToString(index) \o " in array.")])
            ELSE [acc EXCEPT !.st = r.st, !.returned = TRUE]

visitSingularItems(V, constraint, st) ==
    IF ~isArray(V.target) THEN Ret(TRUE, st)
    ELSE IF constraint.extra = 0 THEN Ret(TRUE, st)
    ELSE LET acc == singularItems(V, constraint.extra, 0, LoopAcc(st))
         IN IF acc.returned THEN Ret(FALSE, acc.st) ELSE Ret(acc.validated, acc.st)

(* uniqueItems *)

RECURSIVE uniqueInner(_, _, _, _, _, _)
uniqueInner(V, targetArray, outerIndex, innerItr, innerIndex, acc) ==
    IF innerItr = Len(targetArray) THEN acc
    ELSE IF equalTo(targetArray[outerIndex + 1], targetArray[innerItr + 1])
    THEN IF V.hs
         THEN uniqueInner(V, targetArray, outerIndex, innerItr + 1, innerIndex + 1,
                  [acc EXCEPT !.validated = FALSE,
                              !.st = pushError(@, V.context,
                                         "Elements at indexes #" \o ToString(outerIndex)
                                             \o " and #" \o ToString(innerIndex)
                                             \o " violate uniqueness constraint.")])
         ELSE [acc EXCEPT !.returned = TRUE]
    ELSE uniqueInner(V, targetArray, outerIndex, innerItr + 1, innerIndex + 1, acc)

RECURSIVE uniqueOuter(_, _, _, _)
uniqueOuter(V, targetArray, outerIndex, acc) ==
    IF outerIndex = Len(targetArray) - 1 THEN acc
    ELSE LET a == uniqueInner(V, targetArray, outerIndex, outerIndex + 1, 0, acc)
         IN IF a.returned THEN a
            ELSE uniqueOuter(V, targetArray, outerIndex + 1, a)

\* On an empty array "--targetArray.end()" steps before the array and both
\* loops run outside it: the behaviour is undefined. The iterators only move
\* forward and never meet their end, so the function can leave only by the
\* "return false" of the sink-less branch (should two stray elements compare
\* equal) or by a fault.
visitUniqueItems(V, constraint, st) ==
    IF (V.strictTypes /\ ~isArray(V.target)) \/ ~maybeArray(V.target)
    THEN Ret(TRUE, st)
    ELSE IF Len(asArray(V.target)) = 0
    THEN IF ~V.hs /\ V.ub = "equal"
         THEN Ret(FALSE, st)
         ELSE Ret(FALSE, [st EXCEPT !.crash = TRUE])
    ELSE LET acc == uniqueOuter(V, asArray(V.target), 0, LoopAcc(st))
         IN IF acc.returned THEN Ret(FALSE, acc.st) ELSE Ret(acc.validated, acc.st)

(* enum *)

visitEnum(V, constraint, st) ==
    IF \E i \in 1..Len(constraint.values) : equalTo(constraint.values[i], V.target)
    THEN Ret(TRUE, st)
    ELSE Fail(V, st, "Failed to match against any enum values.")

(* required *)

\* A name as the text of a description
RECURSIVE Text(_)
Text(name) == IF name = <<>> THEN "" ELSE Head(name) \o Text(Tail(name))

RECURSIVE requiredProperties(_, _, _, _, _)
requiredProperties(V, object, names, i, acc) ==
    IF i > Len(names) THEN acc
    ELSE IF ~findMember(object, names[i])
    THEN IF V.hs
         THEN requiredProperties(V, object, names, i + 1,
                  [acc EXCEPT !.validated = FALSE,
                              !.st = pushError(@, V.context,
                                         "Missing required property '"
                                             \o Text(names[i]) \o "'.")])
         ELSE [acc EXCEPT !.returned = TRUE]
    ELSE requiredProperties(V, object, names, i + 1, acc)

\* A Required that refuses every target that is not an object, whatever
\* strictTypes is
visitRequired_strictOnly(V, constraint, st) ==
    IF ~isObject(V.target)
    THEN Fail(V, st, "Object required to validate 'required' properties.")
    ELSE LET acc == requiredProperties(V, asObject(V.target), constraint.names, 1,
                                       LoopAcc(st))
         IN IF acc.returned THEN Ret(FALSE, acc.st) ELSE Ret(acc.validated, acc.st)

visitRequired(V, constraint, st) ==
    IF (V.strictTypes /\ ~isObject(V.target)) \/ ~maybeObject(V.target)
    THEN Fail(V, st, "Object required to validate 'required' properties.")
    ELSE LET acc == requiredProperties(V, asObject(V.target), constraint.names, 1,
                                       LoopAcc(st))
         IN IF acc.returned THEN Ret(FALSE, acc.st) ELSE Ret(acc.validated, acc.st)

(* properties, patternProperties and additionalProperties *)

RECURSIVE memberAgainst(_, _, _, _, _)
\* What the validation of one member against one Subschema leaves in acc
memberAgainst(V, v, subschema, description, acc) ==
    LET after(r) ==
            IF r.ok THEN [acc EXCEPT !.st = r.st]
            ELSE IF V.hs
            THEN [acc EXCEPT !.validated = FALSE,
                             !.st = pushError(r.st, V.context, description)]
            ELSE [acc EXCEPT !.st = r.st, !.returned = TRUE]
    IN Only({after(r) : r \in {validateSchema(v, subschema, acc.st)}})

\* properties.find(propertyName): its position in the map, 0 for end()
findProperty(properties, propertyName) ==
    IF \E i \in 1..Len(properties) : properties[i].name = propertyName
    THEN CHOOSE i \in 1..Len(properties) : properties[i].name = propertyName
    ELSE 0

RECURSIVE patternPropertiesLoop(_, _, _, _, _, _)
patternPropertiesLoop(V, v, patternProperties, itr, propertyName, acc) ==
    IF itr > Len(patternProperties) THEN acc
    ELSE IF regex_search(propertyName, patternProperties[itr].name)
    THEN LET a == memberAgainst(V, v, patternProperties[itr].subschema,
                      "Failed to validate against schema associated with regex '"
                          \o Text(patternProperties[itr].name)
                          \o "' in patternProperties constraint.", acc)
             next(b) == IF b.returned THEN b
                        ELSE patternPropertiesLoop(V, v, patternProperties, itr + 1,
                                                   propertyName, b)
         IN Only({next(b) : b \in {a}})
    ELSE patternPropertiesLoop(V, v, patternProperties, itr + 1, propertyName, acc)

\* A loop body that takes every member to additionalProperties, whether or
\* not a property or a pattern has matched its name
propertiesMember_alwaysAdditional(V, constraint, m, acc) ==
    LET propertyName == m.k
        v == ValidationVisitor(V, m.v, objectContext(V, m.k), V.hs)
        itr == findProperty(constraint.properties, propertyName)
        a1 == IF itr # 0
              THEN memberAgainst(V, v, constraint.properties[itr].subschema,
                       "Failed to validate against schema associated with property name '"
                           \o Text(propertyName) \o "' in properties constraint.", acc)
              ELSE acc
        patterns(a) == IF a.returned THEN a
                       ELSE patternPropertiesLoop(V, v, constraint.patternProperties, 1,
                                                  propertyName, a)
        a2 == Only({patterns(a) : a \in {a1}})
        additional(a) ==
            IF a.returned THEN a
            ELSE IF constraint.extra # 0
            THEN memberAgainst(V, v, constraint.extra,
                     "Failed to validate property '" \o Text(propertyName)
                         \o "' against schema in additionalProperties constraint.", a)
            ELSE IF V.hs
            THEN [a EXCEPT !.validated = FALSE,
                           !.st = pushError(@, V.context,
                                      "Failed to match property name '" \o Text(propertyName)
                                          \o "' to any names in 'properties' or "
                                          \o "regexes in 'patternProperties'")]
            ELSE [a EXCEPT !.returned = TRUE]
    IN Only({additional(a) : a \in {a2}})

\* The body of the loop over the members of the target, for member m
propertiesMember(V, constraint, m, acc) ==
    LET propertyName == m.k
        v == ValidationVisitor(V, m.v, objectContext(V, m.k), V.hs)
        itr == findProperty(constraint.properties, propertyName)
        propertyNameMatched ==
            \/ itr # 0
            \/ \E i \in 1..Len(constraint.patternProperties) :
                   regex_search(propertyName, constraint.patternProperties[i].name)
        a1 == IF itr # 0
              THEN memberAgainst(V, v, constraint.properties[itr].subschema,
                       "Failed to validate against schema associated with property name '"
                           \o Text(propertyName) \o "' in properties constraint.", acc)
              ELSE acc
        patterns(a) == IF a.returned THEN a
                       ELSE patternPropertiesLoop(V, v, constraint.patternProperties, 1,
                                                  propertyName, a)
        a2 == Only({patterns(a) : a \in {a1}})
        additional(a) ==
            IF a.returned \/ propertyNameMatched THEN a
            ELSE IF constraint.extra # 0
            THEN memberAgainst(V, v, constraint.extra,
                     "Failed to validate property '" \o Text(propertyName)
                         \o "' against schema in additionalProperties constraint.", a)
            ELSE IF V.hs
            THEN [a EXCEPT !.validated = FALSE,
                           !.st = pushError(@, V.context,
                                      "Failed to match property name '" \o Text(propertyName)
                                          \o "' to any names in 'properties' or "
                                          \o "regexes in 'patternProperties'")]
            ELSE [a EXCEPT !.returned = TRUE]
    IN Only({additional(a) : a \in {a2}})

RECURSIVE propertiesLoop(_, _, _, _, _)
propertiesLoop(V, constraint, obj, i, acc) ==
    IF i > Len(obj) THEN acc
    ELSE LET a == propertiesMember(V, constraint, obj[i], acc)
             next(b) == IF b.returned THEN b
                        ELSE propertiesLoop(V, constraint, obj, i + 1, b)
         IN Only({next(b) : b \in {a}})

RECURSIVE visitProperties(_, _, _)
visitProperties(V, constraint, st) ==
    IF (V.strictTypes /\ ~isObject(V.target)) \/ ~maybeObject(V.target)
    THEN Ret(TRUE, st)
    ELSE LET leave(acc) == IF acc.returned THEN Ret(FALSE, acc.st)
                           ELSE Ret(acc.validated, acc.st)
         IN Only({leave(acc) :
                  acc \in {propertiesLoop(V, constraint, asObject(V.target), 1,
                                          LoopAcc(st))}})

(* linear items and additionalItems *)

ItemsAcc(st, validated) == [st |-> st, validated |-> validated, numValidated |-> 0]

RECURSIVE ValidateItems(_, _, _, _, _, _)
\* ValidateItems::operator(): continue says whether applyToItemSubschemas
\* goes on to the next positional Subschema
ValidateItems(V, arr, continueOnFailure, index, subschema, acc) ==
    IF index >= Len(arr) THEN [continue |-> FALSE, acc |-> acc]
    ELSE LET newContext == arrayContext(V, index)
             validator == ValidationVisitor(V, arr[index + 1], newContext, V.hs)
             after(r) ==
                 IF r.ok
                 THEN [continue |-> TRUE,
                       acc |-> [acc EXCEPT !.st = r.st, !.numValidated = @ + 1]]
                 ELSE [continue |-> continueOnFailure,
                       acc |-> [acc EXCEPT
                                  !.validated = FALSE,
                                  !.st = IF V.hs
                                         THEN pushError(r.st, newContext,
                                                  "Failed to validate item #"
                                                      \o ToString(index)
                                                      \o " against corresponding item schema.")
                                         ELSE r.st]]
         IN Only({after(r) : r \in {validateSchema(validator, subschema, acc.st)}})

RECURSIVE applyToItemSubschemas(_, _, _, _, _, _)
applyToItemSubschemas(V, arr, itemSubschemas, continueOnFailure, index, acc) ==
    IF index >= Len(itemSubschemas) THEN acc
    ELSE LET r == ValidateItems(V, arr, continueOnFailure, index,
                                itemSubschemas[index + 1], acc)
             next(f) == IF f.continue
                        THEN applyToItemSubschemas(V, arr, itemSubschemas,
                                                   continueOnFailure, index + 1, f.acc)
                        ELSE f.acc
         IN Only({next(f) : f \in {r}})

\* The loop over the items from index on, each against additionalItems
RECURSIVE additionalItems(_, _, _, _, _)
additionalItems(V, arr, additionalItemsSubschema, index, acc) ==
    IF index >= Len(arr) THEN acc
    ELSE LET validator == ValidationVisitor(V, arr[index + 1], arrayContext(V, index),
                                            V.hs)
             after(r) ==
                 IF r.ok THEN [acc EXCEPT !.st = r.st]
                 ELSE IF V.hs
                 THEN [acc EXCEPT !.validated = FALSE,
                                  !.st = pushError(r.st, V.context,
                                             "Failed to validate item #" \o ToString(index)
                                                 \o " against additional items schema.")]
                 ELSE [acc EXCEPT !.st = r.st, !.returned = TRUE]
             next(a) == IF a.returned THEN a
                        ELSE additionalItems(V, arr, additionalItemsSubschema, index + 1, a)
         IN Only({next(a) :
                  a \in {after(r) :
                         r \in {validateSchema(validator, additionalItemsSubschema,
                                               acc.st)}}})

RECURSIVE visitLinearItems(_, _, _)
visitLinearItems(V, constraint, st) ==
    IF (V.strictTypes /\ ~isArray(V.target)) \/ ~maybeArray(V.target)
    THEN Ret(TRUE, st)
    ELSE
    LET additionalItemsSubschema == constraint.extra
        arr == asArray(V.target)
        arrSize == Len(arr)
        itemSubschemaCount == Len(constraint.subschemas)
        tooMany == itemSubschemaCount > 0 /\ additionalItemsSubschema = 0
                       /\ arrSize > itemSubschemaCount
        st1 == IF tooMany /\ V.hs
               THEN pushError(st, V.context,
                        "Array contains more items than allowed by items constraint.")
               ELSE st
        items == IF itemSubschemaCount > 0
                 THEN applyToItemSubschemas(V, arr, constraint.subschemas, V.hs, 0,
                                            ItemsAcc(st1, ~tooMany))
                 ELSE ItemsAcc(st, TRUE)
        remaining(validatedItems) ==
            IF ~V.hs /\ ~validatedItems.validated THEN Ret(FALSE, validatedItems.st)
            ELSE IF validatedItems.numValidated < arrSize
            THEN IF additionalItemsSubschema # 0
                 THEN LET leave(acc) == IF acc.returned THEN Ret(FALSE, acc.st)
                                        ELSE Ret(acc.validated, acc.st)
                      IN Only({leave(acc) :
                               acc \in {additionalItems(V, arr, additionalItemsSubschema,
                                            validatedItems.numValidated,
                                            [LoopAcc(validatedItems.st) EXCEPT
                                                !.validated = validatedItems.validated])}})
                 ELSE Fail(V, validatedItems.st,
                           "Cannot validate item #" \o ToString(validatedItems.numValidated)
                               \o " or greater using 'items' constraint or 'additionalItems' "
                               \o "constraint.")
            ELSE Ret(validatedItems.validated, validatedItems.st)
    IN IF tooMany /\ ~V.hs THEN Ret(FALSE, st)
       ELSE Only({remaining(validatedItems) : validatedItems \in {items}})

(* multipleOf *)

\* static_cast<int64_t>(d) of a double given in halves: the fraction is
\* dropped, towards zero
static_cast_int64(halves) ==
    IF halves >= 0 THEN halves \div 2 ELSE 0 - ((0 - halves) \div 2)

\* remainder(x, y) of <cmath>: x - n * y, n the integer nearest to x / y,
\* the even one when two are as near; x, y and the result count halves
remainder(x, y) ==
    LET m == IF y < 0 THEN 0 - y ELSE y
        q == x \div m
        rest == x % m
    IN IF 2 * rest < m THEN rest
       ELSE IF 2 * rest > m THEN rest - m
       ELSE IF q % 2 = 0 THEN rest ELSE rest - m

\* The branch for a divisor held as int64_t
multipleOfInteger(V, divisor, st) ==
    LET check(i) ==
            IF i = 0 THEN Ret(TRUE, st)
            ELSE IF i % divisor # 0
            THEN Fail(V, st, "Value should be a multiple of " \o ToString(divisor))
            ELSE Ret(TRUE, st)
    IN IF maybeInteger(V.target) THEN check(asInteger(V.target))
       ELSE IF maybeDouble(V.target) THEN check(static_cast_int64(asDouble(V.target)))
       ELSE Ret(TRUE, st)

\* The branch for a divisor held as double; halves are exact doubles, so a
\* remainder is above epsilon exactly when it is not zero
multipleOfDouble(V, divisor, st) ==
    LET check(d) ==
            IF d = 0 THEN Ret(TRUE, st)
            ELSE IF remainder(d, divisor) # 0
            THEN Fail(V, st, "Value should be a multiple of " \o NumText(divisor))
            ELSE Ret(TRUE, st)
    IN IF maybeDouble(V.target) THEN check(asDouble(V.target))
       ELSE IF maybeInteger(V.target) THEN check(2 * asInteger(V.target))
       ELSE Ret(TRUE, st)

\* Under maybeInteger and maybeDouble the conversions asInteger(i) and
\* asDouble(d) succeed, and the variant holds one of its two types
visitMultipleOf(V, constraint, st) ==
    IF constraint.flag
    THEN multipleOfInteger(V, constraint.num, st)
    ELSE multipleOfDouble(V, constraint.num, st)

(* dependencies *)

\* ValidatePropertyDependencies: the loop over the names one property
\* depends on
RECURSIVE dependencyNames(_, _, _, _, _)
dependencyNames(V, object, names, i, acc) ==
    IF i > Len(names) THEN acc
    ELSE IF ~findMember(object, names[i])
    THEN IF V.hs
         THEN dependencyNames(V, object, names, i + 1,
                  [acc EXCEPT !.validated = FALSE,
                              !.st = pushError(@, V.context,
                                         "Missing dependency '" \o Text(names[i]) \o "'.")])
         ELSE [acc EXCEPT !.returned = TRUE]
    ELSE dependencyNames(V, object, names, i + 1, acc)

\* applyToPropertyDependencies(ValidatePropertyDependencies(...))
RECURSIVE applyToPropertyDependencies(_, _, _, _, _)
applyToPropertyDependencies(V, object, propertyDependencies, i, acc) ==
    IF i > Len(propertyDependencies) \/ acc.returned THEN acc
    ELSE IF ~findMember(object, propertyDependencies[i].name)
    THEN applyToPropertyDependencies(V, object, propertyDependencies, i + 1, acc)
    ELSE applyToPropertyDependencies(V, object, propertyDependencies, i + 1,
             dependencyNames(V, object, propertyDependencies[i].names, 1, acc))

\* A loop over the schema dependencies that validates the value of the
\* member that has the dependency, where the code validates the target
RECURSIVE applyToSchemaDependencies_memberValue(_, _, _, _, _)
applyToSchemaDependencies_memberValue(V, object, schemaDependencies, i, acc) ==
    IF i > Len(schemaDependencies) \/ acc.returned THEN acc
    ELSE IF ~findMember(object, schemaDependencies[i].name)
    THEN applyToSchemaDependencies_memberValue(V, object, schemaDependencies, i + 1, acc)
    ELSE LET m == CHOOSE k \in 1..Len(object) : object[k].k = schemaDependencies[i].name
             v == ValidationVisitor(V, object[m].v, objectContext(V, object[m].k), V.hs)
         IN applyToSchemaDependencies_memberValue(V, object, schemaDependencies, i + 1,
                memberAgainst(V, v, schemaDependencies[i].subschema,
                              "Failed to validate against dependent schema.", acc))

\* applyToSchemaDependencies(ValidateSchemaDependencies(...)): the visitor
\* itself, with its target and context, validates the dependent Subschema
RECURSIVE applyToSchemaDependencies(_, _, _, _, _)
applyToSchemaDependencies(V, object, schemaDependencies, i, acc) ==
    IF i > Len(schemaDependencies) \/ acc.returned THEN acc
    ELSE IF ~findMember(object, schemaDependencies[i].name)
    THEN applyToSchemaDependencies(V, object, schemaDependencies, i + 1, acc)
    ELSE applyToSchemaDependencies(V, object, schemaDependencies, i + 1,
             memberAgainst(V, V, schemaDependencies[i].subschema,
                           "Failed to validate against dependent schema.", acc))

RECURSIVE visitDependencies(_, _, _)
visitDependencies(V, constraint, st) ==
    IF (V.strictTypes /\ ~isObject(V.target)) \/ ~maybeObject(V.target)
    THEN Ret(TRUE, st)
    ELSE LET object == asObject(V.target)
             schemas(a) ==
                 IF a.returned THEN a
                 ELSE applyToSchemaDependencies(V, object, constraint.schemaDependencies,
                                                1, a)
             result(a) == IF a.returned THEN Ret(FALSE, a.st) ELSE Ret(a.validated, a.st)
         IN Only({result(a) :
                    a \in {schemas(p) :
                             p \in {applyToPropertyDependencies(V, object,
                                        constraint.propertyDependencies, 1,
                                        LoopAcc(st))}}})

(* dispatch *)

\* constraint.accept(visitor)
visit(V, constraint, st) ==
    CASE constraint.kind = "allOf"         -> visitAllOf(V, constraint, st)
      [] constraint.kind = "anyOf"         -> visitAnyOf(V, constraint, st)
      [] constraint.kind = "oneOf"         -> visitOneOf(V, constraint, st)
      [] constraint.kind = "not"           -> visitNot(V, constraint, st)
      [] constraint.kind = "type"          -> visitType(V, constraint, st)
      [] constraint.kind = "maximum"       -> visitMaximum(V, constraint, st)
      [] constraint.kind = "minimum"       -> visitMinimum(V, constraint, st)
      [] constraint.kind = "maxItems"      -> visitMaxItems(V, constraint, st)
      [] constraint.kind = "minItems"      -> visitMinItems(V, constraint, st)
      [] constraint.kind = "maxLength"     -> visitMaxLength(V, constraint, st)
      [] constraint.kind = "minLength"     -> visitMinLength(V, constraint, st)
      [] constraint.kind = "maxProperties" -> visitMaxProperties(V, constraint, st)
      [] constraint.kind = "minProperties" -> visitMinProperties(V, constraint, st)
      [] constraint.kind = "pattern"       -> visitPattern(V, constraint, st)
      [] constraint.kind = "singularItems" -> visitSingularItems(V, constraint, st)
      [] constraint.kind = "uniqueItems"   -> visitUniqueItems(V, constraint, st)
      [] constraint.kind = "enum"          -> visitEnum(V, constraint, st)
      [] constraint.kind = "required"      -> visitRequired(V, constraint, st)
      [] constraint.kind = "properties"    -> visitProperties(V, constraint, st)
      [] constraint.kind = "linearItems"   -> visitLinearItems(V, constraint, st)
      [] constraint.kind = "dependencies"  -> visitDependencies(V, constraint, st)
      [] constraint.kind = "multipleOf"    -> visitMultipleOf(V, constraint, st)

\* The visit of the i-th constraint of subschema, entered in the log
LogEntry(V, subschema, i) == [subschema |-> subschema, index |-> i, context |-> V.context,
                              hs |-> V.hs, depth |-> V.depth]

validationCallback(V, subschema, i, st) ==
    visit(V, constraints[subschema][i],
          [st EXCEPT !.log = Append(@, LogEntry(V, subschema, i))])

\* Subschema::apply
RECURSIVE apply(_, _, _, _, _)
apply(V, subschema, i, allTrue, st) ==
    IF i > Len(constraints[subschema]) THEN Ret(allTrue, st)
    ELSE IF allTrue
    THEN LET r == validationCallback(V, subschema, i, st)
         IN apply(V, subschema, i + 1, r.ok, r.st)
    ELSE apply(V, subschema, i + 1, FALSE, st)

\* applyStrict that notes a failure and carries on to the next constraint
RECURSIVE applyStrict_noReturn(_, _, _, _)
applyStrict_noReturn(V, subschema, i, st) ==
    IF i > Len(constraints[subschema]) THEN Ret(TRUE, st)
    ELSE LET r == validationCallback(V, subschema, i, st)
             rest == applyStrict_noReturn(V, subschema, i + 1, r.st)
         IN Ret(r.ok /\ rest.ok, rest.st)

\* Subschema::applyStrict
RECURSIVE applyStrict(_, _, _, _)
applyStrict(V, subschema, i, st) ==
    IF i > Len(constraints[subschema]) THEN Ret(TRUE, st)
    ELSE LET r == validationCallback(V, subschema, i, st)
         IN IF ~r.ok THEN Ret(FALSE, r.st)
            ELSE applyStrict(V, subschema, i + 1, r.st)

\* validateSchema that does not count itself on the call stack
validateSchema_uncounted(V, subschema, st) ==
    IF ~V.hs
    THEN applyStrict(V, subschema, 1, st)
    ELSE apply(V, subschema, 1, TRUE, st)

\* The constraints of subschema are visited one invocation of validateSchema
\* deeper than the caller
validateSchema(V, subschema, st) ==
    IF ~V.hs
    THEN applyStrict([V EXCEPT !.depth = @ + 1], subschema, 1, st)
    ELSE apply([V EXCEPT !.depth = @ + 1], subschema, 1, TRUE, st)

----------------------------------------------------------------------------
(* The documents and schemas of the model *)

Docs ==
    {JNull, JBool(TRUE), JInt(1), JInt(3), JDouble(5),
     JString(<<>>), JString(<<"5">>), JString(<<"a", "b">>),
     JArray(<<>>), JArray(<<JInt(1)>>), JArray(<<JInt(3), JString(<<"a", "b">>), JInt(3)>>),
     JObject(<<>>), JObject(<<Member(<<"a">>, JInt(1))>>),
     JObject(<<Member(<<"a">>, JInt(3)), Member(<<"b">>, JString(<<"a", "b">>))>>)}

\* The arena: the root Subschema and the child Subschemas the parser has
\* populated before it attaches the constraints that refer to them
Root == 1

ChildSubschemas ==
    <<  <<>>,
        <<TypeConstraint({"number"}, <<>>)>>,
        <<MinimumConstraint(4, FALSE)>>,
        <<TypeConstraint({"string"}, <<>>), MinLengthConstraint(2)>>,
        <<>>,
        <<AnyOfConstraint(<<2, 4>>), MaximumConstraint(4, TRUE)>>  >>

SubIds == DOMAIN ChildSubschemas

PoolCombinators ==
    {AllOfConstraint(<<4, 2>>), AnyOfConstraint(<<2, 4>>), OneOfConstraint(<<2, 3>>)}

PoolAlternatives ==
    {OneOfConstraint(<<2, 4>>), NotConstraint(4), TypeConstraint({"string"}, <<>>)}

PoolNested ==
    {NotConstraint(6), OneOfConstraint(<<6, 4, 2>>), TypeConstraint({"null"}, <<4, 2>>)}

PoolNumbers ==
    {MaximumConstraint(4, FALSE), MinimumConstraint(2, TRUE), SingularItemsConstraint(6)}

PoolStrings ==
    {MaxLengthConstraint(1), MinLengthConstraint(1), PatternConstraint(<<"a">>)}

PoolArrays ==
    {MaxItemsConstraint(1), MinItemsConstraint(1), UniqueItemsConstraint}

PoolObjects ==
    {MaxPropertiesConstraint(0), MinPropertiesConstraint(1),
     TypeConstraint({"integer", "boolean"}, <<>>)}

PoolItems ==
    {SingularItemsConstraint(2), AllOfConstraint(<<3, 5>>), AnyOfConstraint(<<3, 4>>)}

PoolRequired ==
    {RequiredConstraint(<< <<"a">>, <<"b">> >>), RequiredConstraint(<< <<"b">> >>),
     TypeConstraint({"object"}, <<>>)}

PoolProperties ==
    {PropertiesConstraint(<<PropertySchema(<<"a">>, 3)>>, <<>>, 0),
     PropertiesConstraint(<<PropertySchema(<<"a">>, 2)>>, <<>>, 5),
     PropertiesConstraint(<<PropertySchema(<<"a">>, 3)>>,
                          <<PropertySchema(<<"a">>, 4), PropertySchema(<<"~">>, 3)>>, 2)}

PoolLinearItems ==
    {LinearItemsConstraint(<<4>>, 0), LinearItemsConstraint(<<4, 2>>, 4),
     EnumConstraint(<<JInt(1), JString(<<"a", "b">>)>>)}

PoolDependencies ==
    {DependenciesConstraint(<<PropertyDependency(<<"a">>, << <<"b">> >>)>>, <<>>),
     DependenciesConstraint(<<>>, <<PropertySchema(<<"a">>, 3), PropertySchema(<<"b">>, 2)>>),
     DependenciesConstraint(<<PropertyDependency(<<"a">>, << <<"b">>, <<"~">> >>),
                              PropertyDependency(<<"b">>, << <<"a">> >>)>>,
                            <<PropertySchema(<<"b">>, 5)>>)}

\* The divisors 2 and 3 as int64_t and the divisor 1.5 as double
PoolMultipleOf ==
    {MultipleOfConstraint(2, TRUE), MultipleOfConstraint(3, TRUE),
     MultipleOfConstraint(3, FALSE)}

Pools ==
    {PoolCombinators, PoolAlternatives, PoolNested, PoolNumbers, PoolStrings,
     PoolArrays, PoolObjects, PoolItems, PoolRequired, PoolProperties,
     PoolLinearItems, PoolDependencies, PoolMultipleOf}

\* An error the caller's sink may hold before a validation
SeedError == MakeError(<<>>, "An error from an earlier validation.")

Sinks == {"null", "fresh", "used"}

UBOutcomes == {"fault", "equal"}

NoCall ==
    [target |-> JNull, sink |-> "none", strict |-> TRUE, ub |-> "fault",
     ret |-> "none", pre |-> <<>>, log |-> <<>>, errors |-> <<>>]

NoRaise == [op |-> "none", subschema |-> 0, error |-> "none"]

\* path is the Path the jsonPointer was derived from, when fromPath says so
NoResolve ==
    [node |-> JNull, jsonPointer |-> <<>>, ret |-> "none", value |-> JNull,
     outOfBounds |-> FALSE, path |-> <<>>, fromPath |-> FALSE]

----------------------------------------------------------------------------
(* Actions on the Schema and the Validator *)

InitResults ==
    /\ m_errors = <<>>
    /\ pushed = <<>>
    /\ popped = <<>>
    /\ popRet = "none"
    /\ lastPath = <<>>

InitValidator ==
    /\ constraints = ChildSubschemas
    /\ phase = "build"
    /\ strictTypes = TRUE
    /\ call = NoCall
    /\ prev = NoCall

\* The Schema owns the child Subschemas that the parser has created
InitArena ==
    /\ subschemaSet = SubIds \ {Root}
    /\ raised = NoRaise
    /\ resolved = NoResolve

Init ==
    /\ InitResults
    /\ InitValidator
    /\ InitArena
    /\ pool \in Pools
    /\ doc \in Docs
    /\ threads = <<>>

\* Subschema::addConstraint on the root
addConstraint(constraint) ==
    /\ phase = "build"
    /\ Len(constraints[Root]) < MaxConstraints
    /\ constraints' = [constraints EXCEPT ![Root] = Append(@, constraint)]
    /\ UNCHANGED <<phase, strictTypes, call, prev, pool, doc, threads>>
    /\ UNCHANGED resultsVars
    /\ UNCHANGED arenaVars

\* Validator::Validator(schema)
NewValidator ==
    /\ phase = "build"
    /\ phase' = "ready"
    /\ strictTypes' = TRUE
    /\ UNCHANGED <<constraints, call, prev, pool, doc, threads>>
    /\ UNCHANGED resultsVars
    /\ UNCHANGED arenaVars

\* Validator::setStrict; the history is of the calls under the current
\* setting, and starts again
setStrict(strict) ==
    /\ phase = "ready"
    /\ strictTypes' = strict
    /\ call' = NoCall
    /\ prev' = NoCall
    /\ UNCHANGED <<constraints, phase, pool, doc, threads>>
    /\ UNCHANGED resultsVars
    /\ UNCHANGED arenaVars

\* The outcome of one validation of target at the root, with the sink
\* holding pre when hs
Run(target, strict, hs, ub, pre) ==
    validateSchema(Visitor(target, <<>>, strict, hs, ub), Root, RunState(pre))

CallRecord(target, sink, strict, ub, pre, r) ==
    [target |-> target, sink |-> sink, strict |-> strict, ub |-> ub,
     ret |-> IF r.st.crash THEN "crash" ELSE IF r.ok THEN "true" ELSE "false",
     pre |-> pre,
     log |-> IF r.st.crash THEN <<>> ELSE r.st.log,
     errors |-> IF r.st.crash \/ sink = "null" THEN <<>> ELSE r.st.res]

SameArguments(c, target, sink, strict) ==
    c.ret # "none" /\ c.target = target /\ c.sink = sink /\ c.strict = strict

\* validate handing the visitor the sink of the call before, uncleared
validate_stale(target, sink) ==
    /\ phase = "ready"
    /\ LET pre == IF sink = "used" THEN <<SeedError>>
                  ELSE IF sink = "fresh" /\ call.sink = "fresh" THEN m_errors
                  ELSE <<>>
           hs == sink # "null"
           fault == Run(target, strictTypes, hs, "fault", pre)
       IN \E ub \in (IF fault.st.crash THEN UBOutcomes ELSE {"fault"}) :
            LET r == IF ub = "fault" THEN fault
                     ELSE Run(target, strictTypes, hs, ub, pre)
                c == CallRecord(target, sink, strictTypes, ub, pre, r)
            IN /\ call' = c
               /\ prev' = IF SameArguments(call, target, sink, strictTypes)
                          THEN call ELSE NoCall
               /\ m_errors' = IF hs THEN c.errors ELSE m_errors
    /\ UNCHANGED <<constraints, phase, strictTypes, pool, doc, threads>>
    /\ UNCHANGED <<pushed, popped, popRet, lastPath>>
    /\ UNCHANGED arenaVars

\* Validator::validate(target, results): results is NULL, a fresh
\* ValidationResults or one that already holds an error; m_errors is the sink
\* of the last call that was given one
validate(target, sink) ==
    /\ phase = "ready"
    /\ LET pre == IF sink = "used" THEN <<SeedError>> ELSE <<>>
           hs == sink # "null"
           fault == Run(target, strictTypes, hs, "fault", pre)
       IN \E ub \in (IF fault.st.crash THEN UBOutcomes ELSE {"fault"}) :
            LET r == IF ub = "fault" THEN fault
                     ELSE Run(target, strictTypes, hs, ub, pre)
                c == CallRecord(target, sink, strictTypes, ub, pre, r)
            IN /\ call' = c
               /\ prev' = IF SameArguments(call, target, sink, strictTypes)
                          THEN call ELSE NoCall
               /\ m_errors' = IF hs THEN c.errors ELSE m_errors
    /\ UNCHANGED <<constraints, phase, strictTypes, pool, doc, threads>>
    /\ UNCHANGED <<pushed, popped, popRet, lastPath>>
    /\ UNCHANGED arenaVars

Next ==
    \/ \E constraint \in pool : addConstraint(constraint)
    \/ NewValidator
    \/ \E strict \in BOOLEAN : setStrict(strict)
    \/ \E sink \in Sinks : validate(doc, sink)

Spec == Init /\ [][Next]_vars

----------------------------------------------------------------------------
(* Properties of validation *)

\* C1: for the schema, the target and the strictTypes of any validate call
\* that returned, validateSchema run in the other mode (with a results sink
\* when the call had none, without one when it had one) returns the same
\* boolean, whenever that run returns at all.
C1_SameBooleanInBothModes ==
    call.ret \in {"true", "false"} =>
        \A ub \in UBOutcomes :
            LET other == Run(call.target, call.strict, call.sink = "null", ub, <<>>)
            IN other.st.crash \/ (other.ok <=> (call.ret = "true"))

\* A collect-all call on a root of two constraints returned false after
\* recording errors, and the fail-fast run on the same input returns as well
C1_Witness ==
    /\ call.sink = "fresh"
    /\ call.ret = "false"
    /\ Len(constraints[Root]) = MaxConstraints
    /\ Len(call.errors) >= 2
    /\ ~Run(call.target, call.strict, FALSE, "fault", <<>>).st.crash

\* C2: when a results sink is provided, validateSchema evaluates every
\* constraint attached to the Subschema, also the ones that come after a
\* constraint that returned false, and returns the logical AND of the
\* results of all of them.
C2_CollectAllEvaluatesEveryConstraint ==
    (call.sink \in {"fresh", "used"} /\ call.ret \in {"true", "false"}) =>
        LET V == Visitor(call.target, <<>>, call.strict, TRUE, call.ub)
            n == Len(constraints[Root])
        IN /\ \A i \in 1..n : \E k \in 1..Len(call.log) :
                  call.log[k].subschema = Root /\ call.log[k].index = i
           /\ (call.ret = "true") <=>
                  \A i \in 1..n : visit(V, constraints[Root][i], RunState(<<>>)).ok

\* C3: when no results sink is provided, validateSchema evaluates the
\* constraints of the Subschema in the order they were attached, evaluates
\* none after the first one that returns false, and then returns false (and
\* true when none returns false).
C3_FailFastStopsAtFirstFalse ==
    (call.sink = "null" /\ call.ret \in {"true", "false"}) =>
        LET V == Visitor(call.target, <<>>, call.strict, FALSE, call.ub)
            n == Len(constraints[Root])
            AtRoot(e) == e.subschema = Root
            rootLog == SelectSeq(call.log, AtRoot)
            ok(i) == visit(V, constraints[Root][i], RunState(<<>>)).ok
            failing == {i \in 1..n : ~ok(i)}
            last == IF failing = {} THEN n
                    ELSE CHOOSE i \in failing : \A j \in failing : i <= j
        IN /\ Len(rootLog) = last
           /\ \A k \in 1..Len(rootLog) : rootLog[k].index = k
           /\ (call.ret = "false") <=> (failing # {})

\* A sink-less call on a root of two constraints stopped at the first, which
\* returned false, and evaluated the constraints of a child on the way
C3_Witness ==
    /\ call.sink = "null"
    /\ call.ret = "false"
    /\ Len(constraints[Root]) = MaxConstraints
    /\ \E k \in 1..Len(call.log) : call.log[k].subschema # Root
    /\ \A k \in 1..Len(call.log) : call.log[k].subschema = Root => call.log[k].index = 1

\* C4: visiting a OneOf constraint returns true if and only if exactly one of
\* its child Subschemas validates the target (false when none does, false
\* when two or more do), with and without a results sink; a call on a root
\* holding only that constraint returns the same.
C4_OneOfExactlyOne ==
    call.ret \in {"true", "false"} =>
        \A i \in 1..Len(constraints[Root]) :
            constraints[Root][i].kind = "oneOf" =>
                LET V == Visitor(call.target, <<>>, call.strict, call.sink # "null", call.ub)
                    c == constraints[Root][i]
                    matching == {j \in 1..Len(c.subschemas) :
                                    validateSchema(V, c.subschemas[j], RunState(<<>>)).ok}
                IN /\ visit(V, c, RunState(<<>>)).ok <=> (Cardinality(matching) = 1)
                   /\ Len(constraints[Root]) = 1 =>
                          ((call.ret = "true") <=> (Cardinality(matching) = 1))

\* A collect-all call on a root holding one OneOf returned false because two
\* of its children validate the target
C4_Witness ==
    /\ call.sink = "fresh"
    /\ call.ret = "false"
    /\ Len(constraints[Root]) = 1
    /\ constraints[Root][1].kind = "oneOf"
    /\ Cardinality({j \in 1..Len(constraints[Root][1].subschemas) :
           validateSchema(Visitor(call.target, <<>>, call.strict, TRUE, call.ub),
                          constraints[Root][1].subschemas[j], RunState(<<>>)).ok}) = 2

\* C5 (as claimed): for each of Maximum, Minimum, MaxLength, MinLength,
\* Pattern, MaxItems, MinItems, UniqueItems, MaxProperties and MinProperties
\* and for either value of strictTypes, visiting the constraint on a target
\* whose type is not the constraint's applicable type returns true and
\* pushes no error.
C5_VacuousOnOtherTypes ==
    call.ret # "none" =>
        \A i \in 1..Len(constraints[Root]) :
            LET c == constraints[Root][i]
                V == Visitor(call.target, <<>>, call.strict, call.sink # "null", call.ub)
                applicable ==
                    CASE c.kind \in {"maximum", "minimum"} -> isNumber(call.target)
                      [] c.kind \in {"maxLength", "minLength", "pattern"} -> isString(call.target)
                      [] c.kind \in {"maxItems", "minItems", "uniqueItems"} -> isArray(call.target)
                      [] c.kind \in {"maxProperties", "minProperties"} -> isObject(call.target)
                      [] OTHER -> TRUE
                r == visit(V, c, RunState(call.pre))
            IN ~applicable =>
                   /\ r.ok /\ ~r.st.crash /\ r.st.res = call.pre
                   /\ Len(constraints[Root]) = 1 =>
                          (call.ret = "true" /\ call.errors = (IF call.sink = "null" THEN <<>> ELSE call.pre))

\* C5 (amended): the same, when strictTypes is true or the target's coercion
\* predicate for the applicable type (maybeDouble, maybeString, maybeArray,
\* maybeObject) is false.
C5_VacuousUnlessCoercible ==
    call.ret # "none" =>
        \A i \in 1..Len(constraints[Root]) :
            LET c == constraints[Root][i]
                V == Visitor(call.target, <<>>, call.strict, call.sink # "null", call.ub)
                applicable ==
                    CASE c.kind \in {"maximum", "minimum"} -> isNumber(call.target)
                      [] c.kind \in {"maxLength", "minLength", "pattern"} -> isString(call.target)
                      [] c.kind \in {"maxItems", "minItems", "uniqueItems"} -> isArray(call.target)
                      [] c.kind \in {"maxProperties", "minProperties"} -> isObject(call.target)
                      [] OTHER -> TRUE
                coercible ==
                    CASE c.kind \in {"maximum", "minimum"} -> maybeDouble(call.target)
                      [] c.kind \in {"maxLength", "minLength", "pattern"} -> maybeString(call.target)
                      [] c.kind \in {"maxItems", "minItems", "uniqueItems"} -> maybeArray(call.target)
                      [] c.kind \in {"maxProperties", "minProperties"} -> maybeObject(call.target)
                      [] OTHER -> TRUE
                r == visit(V, c, RunState(call.pre))
            IN (~applicable /\ (call.strict \/ ~coercible)) =>
                   /\ r.ok /\ ~r.st.crash /\ r.st.res = call.pre
                   /\ Len(constraints[Root]) = 1 =>
                          (call.ret = "true" /\ call.errors = (IF call.sink = "null" THEN <<>> ELSE call.pre))

\* With strictTypes false, a Minimum was visited on a string that is no
\* number even loosely, and with strictTypes true on a string of digits
C5_Witness ==
    /\ call.ret = "true"
    /\ call.sink = "used"
    /\ Len(constraints[Root]) = 1
    /\ constraints[Root][1].kind = "minimum"
    /\ \/ ~call.strict /\ call.target = JString(<<"a", "b">>)
       \/ call.strict /\ call.target = JString(<<"5">>)

C9_SinkOnlyAppended ==
    (call.sink \in {"fresh", "used"} /\ call.ret \in {"true", "false"}) =>
        /\ Len(m_errors) >= Len(call.pre)
        /\ SubSeq(m_errors, 1, Len(call.pre)) = call.pre

\* A call on a sink that held an error visited a OneOf none of whose
\* children validates, and added the child errors and the summary
C9_Witness ==
    /\ call.sink = "used"
    /\ call.ret = "false"
    /\ call.pre # <<>>
    /\ constraints[Root] # <<>>
    /\ constraints[Root][1].kind = "oneOf"
    /\ Len(m_errors) >= Len(call.pre) + 3

----------------------------------------------------------------------------
(* Properties of the combinators *)

\* C11: in collect-all mode, the errors produced while validating a OneOf
\* child reach the caller's sink only when no child validates: when exactly
\* one child validates the sink is left as it was, and when two or more
\* validate exactly one summary error is added.
C11_OneOfChildErrorsStayLocal ==
    (call.sink \in {"fresh", "used"} /\ call.ret \in {"true", "false"}) =>
        \A i \in 1..Len(constraints[Root]) :
            constraints[Root][i].kind = "oneOf" =>
                LET V == Visitor(call.target, <<>>, call.strict, TRUE, call.ub)
                    c == constraints[Root][i]
                    matching == {j \in 1..Len(c.subschemas) :
                                    validateSchema(V, c.subschemas[j], RunState(<<>>)).ok}
                    r == visit(V, c, RunState(call.pre))
                IN /\ Cardinality(matching) = 1 => r.st.res = call.pre
                   /\ Cardinality(matching) >= 2 => Len(r.st.res) = Len(call.pre) + 1
                   /\ Len(constraints[Root]) = 1 => call.errors = r.st.res

\* C12: in collect-all mode, visiting an AnyOf adds exactly one error, the
\* summary, when no child validates, and adds nothing when some child
\* validates: the errors of the children that failed never reach the sink.
C12_AnyOfOnlySummary ==
    (call.sink \in {"fresh", "used"} /\ call.ret \in {"true", "false"}) =>
        \A i \in 1..Len(constraints[Root]) :
            constraints[Root][i].kind = "anyOf" =>
                LET V == Visitor(call.target, <<>>, call.strict, TRUE, call.ub)
                    c == constraints[Root][i]
                    matching == {j \in 1..Len(c.subschemas) :
                                    validateSchema(V, c.subschemas[j], RunState(<<>>)).ok}
                    r == visit(V, c, RunState(call.pre))
                IN /\ matching # {} => r.st.res = call.pre
                   /\ matching = {} =>
                          /\ Len(r.st.res) = Len(call.pre) + 1
                          /\ SubSeq(r.st.res, 1, Len(call.pre)) = call.pre
                          /\ r.st.res[Len(r.st.res)].jsonPointer = <<>>
                   /\ Len(constraints[Root]) = 1 => call.errors = r.st.res

\* C13: in collect-all mode, visiting an AllOf validates the target against
\* every child Subschema, also the children that follow a failing child, and
\* records one error per failing child plus one summary error.
C13_AllOfValidatesEveryChild ==
    (call.sink \in {"fresh", "used"} /\ call.ret \in {"true", "false"}) =>
        \A i \in 1..Len(constraints[Root]) :
            constraints[Root][i].kind = "allOf" =>
                LET V == Visitor(call.target, <<>>, call.strict, TRUE, call.ub)
                    c == constraints[Root][i]
                    n == Len(c.subschemas)
                    child(j) == validateSchema(V, c.subschemas[j], RunState(<<>>))
                    failing == {j \in 1..n : ~child(j).ok}
                    r == visit(V, c, RunState(call.pre))
                    added == SubSeq(r.st.res, Len(call.pre) + 1, Len(r.st.res))
                IN /\ \A j \in 1..n :
                          constraints[c.subschemas[j]] # <<>> =>
                              \E k \in 1..Len(r.st.log) :
                                  r.st.log[k].subschema = c.subschemas[j]
                   /\ \A j \in failing :
                          \E k \in 1..Len(added) :
                              added[k] = MakeError(<<>>,
                                  "Failed to validate against child schema #"
                                      \o ToString(j - 1) \o ".")
                   /\ LET RECURSIVE childErrors(_)
                          childErrors(j) ==
                              IF j = 0 THEN 0
                              ELSE childErrors(j - 1) + Len(child(j).st.res)
                      IN Len(added) = childErrors(n) + Cardinality(failing)
                                          + (IF failing = {} THEN 0 ELSE 1)

\* C14: visiting a Not returns the negation of a sink-less validation of the
\* target against its child Subschema; it adds exactly one summary error to
\* the outer sink when it fails and a sink is given, nothing when it
\* succeeds, and no error of the child validation reaches the outer sink.
C14_NotDiscardsChildErrors ==
    call.ret \in {"true", "false"} =>
        \A i \in 1..Len(constraints[Root]) :
            constraints[Root][i].kind = "not" =>
                LET hs == call.sink # "null"
                    V == Visitor(call.target, <<>>, call.strict, hs, call.ub)
                    c == constraints[Root][i]
                    sinkless == validateSchema(
                                    Visitor(call.target, <<>>, call.strict, FALSE, call.ub),
                                    c.subschemas[1], RunState(<<>>))
                    r == visit(V, c, RunState(call.pre))
                    summary == MakeError(<<>>,
                        "Target should not validate against schema specified in 'not' constraint.")
                IN /\ r.ok <=> ~sinkless.ok
                   /\ r.st.res = IF hs /\ sinkless.ok THEN Append(call.pre, summary)
                                 ELSE call.pre
                   /\ Len(constraints[Root]) = 1 =>
                          /\ (call.ret = "true") <=> ~sinkless.ok
                          /\ hs => m_errors = r.st.res

\* A call on a sink that held an error visited a Not whose child rejects the
\* target after a grandchild failed, and one whose child accepts the target
C14_Witness ==
    /\ call.sink = "used"
    /\ Len(constraints[Root]) = 1
    /\ constraints[Root][1].kind = "not"
    /\ LET collecting == validateSchema(
                             Visitor(call.target, <<>>, call.strict, TRUE, call.ub),
                             constraints[Root][1].subschemas[1], RunState(<<>>))
       IN \/ call.ret = "true" /\ Len(collecting.st.res) >= 1 /\ m_errors = call.pre
          \/ call.ret = "false" /\ Len(collecting.st.res) >= 1
                /\ Len(m_errors) = Len(call.pre) + 1

\* C15: visiting a Required on a target that is not an object returns false
\* and adds exactly one error; on an object it returns true iff every listed
\* name is a member key, and in collect-all mode it adds exactly one error
\* per missing name.
C15_RequiredOnNonObject ==
    call.ret \in {"true", "false"} =>
        \A i \in 1..Len(constraints[Root]) :
            constraints[Root][i].kind = "required" =>
                LET hs == call.sink # "null"
                    V == Visitor(call.target, <<>>, call.strict, hs, call.ub)
                    c == constraints[Root][i]
                    r == visit(V, c, RunState(call.pre))
                    missing == {k \in 1..Len(c.names) :
                                   ~findMember(call.target.o, c.names[k])}
                IN /\ ~isObject(call.target) =>
                          /\ ~r.ok
                          /\ hs => Len(r.st.res) = Len(call.pre) + 1
                   /\ isObject(call.target) =>
                          /\ r.ok <=> missing = {}
                          /\ hs => Len(r.st.res) = Len(call.pre) + Cardinality(missing)

\* C15 (amended): a Required refuses its target, with false and exactly one
\* error, when the target is not an object and either strictTypes is set or
\* the target cannot be read as an object; any other target is read as an
\* object (a string that can be read as one has no members), the result is
\* true iff every listed name is a member key, and in collect-all mode one
\* error per missing name is added, in the order of the names.
C15_RequiredOnUnreadableObject ==
    call.ret \in {"true", "false"} =>
        \A i \in 1..Len(constraints[Root]) :
            constraints[Root][i].kind = "required" =>
                LET hs == call.sink # "null"
                    V == Visitor(call.target, <<>>, call.strict, hs, call.ub)
                    c == constraints[Root][i]
                    r == visit(V, c, RunState(call.pre))
                    refused == ~isObject(call.target)
                                   /\ (call.strict \/ ~maybeObject(call.target))
                    object == asObject(call.target)
                    missing == SelectSeq(c.names, LAMBDA name : ~findMember(object, name))
                    added == SubSeq(r.st.res, Len(call.pre) + 1, Len(r.st.res))
                IN /\ SubSeq(r.st.res, 1, Len(call.pre)) = call.pre
                   /\ ~hs => added = <<>>
                   /\ refused =>
                          /\ ~r.ok
                          /\ hs => added = <<MakeError(<<>>,
                                     "Object required to validate 'required' properties.")>>
                   /\ ~refused =>
                          /\ r.ok <=> missing = <<>>
                          /\ hs => /\ Len(added) = Len(missing)
                                   /\ \A k \in 1..Len(missing) :
                                          added[k] = MakeError(<<>>,
                                              "Missing required property '"
                                                  \o Text(missing[k]) \o "'.")
                   /\ Len(constraints[Root]) = 1 =>
                          /\ (call.ret = "true") <=> r.ok
                          /\ hs => m_errors = r.st.res

\* With strictTypes unset a Required naming two properties visited the empty
\* string, read it as an object without members and added two errors
C15_Witness ==
    /\ call.ret = "false"
    /\ call.sink = "fresh"
    /\ ~call.strict
    /\ call.target = JString(<<>>)
    /\ Len(constraints[Root]) = 1
    /\ constraints[Root][1].kind = "required"
    /\ Len(constraints[Root][1].names) = 2
    /\ Len(m_errors) = 2

\* C16: in collect-all mode, visiting a UniqueItems on an array adds one
\* error for every pair of positions i < j whose elements are strictly
\* equal, and that error names the indexes i and j of the pair.
C16_UniqueItemsNamesThePair ==
    (call.sink \in {"fresh", "used"} /\ call.ret \in {"true", "false"}
        /\ isArray(call.target) /\ call.target.a # <<>>) =>
        \A c \in 1..Len(constraints[Root]) :
            constraints[Root][c].kind = "uniqueItems" =>
                LET V == Visitor(call.target, <<>>, call.strict, TRUE, call.ub)
                    r == visit(V, constraints[Root][c], RunState(call.pre))
                    added == SubSeq(r.st.res, Len(call.pre) + 1, Len(r.st.res))
                    a == call.target.a
                    pairs == {p \in (0..(Len(a) - 1)) \X (0..(Len(a) - 1)) :
                                 p[1] < p[2] /\ equalTo(a[p[1] + 1], a[p[2] + 1])}
                IN /\ Len(added) = Cardinality(pairs)
                   /\ \A p \in pairs :
                          \E k \in 1..Len(added) :
                              added[k] = MakeError(<<>>,
                                  "Elements at indexes #" \o ToString(p[1])
                                      \o " and #" \o ToString(p[2])
                                      \o " violate uniqueness constraint.")

\* C17: in collect-all mode, when an array element or an object member fails
\* its Subschema, the errors of that child, addressed at the child's path,
\* are immediately followed by exactly one summary error addressed at the
\* path of the containing node, and the failing elements of an array are
\* reported in ascending order of their indexes.
C17_ChildErrorsThenSummary ==
    (call.sink \in {"fresh", "used"} /\ call.ret \in {"true", "false"}) =>
        \A c \in 1..Len(constraints[Root]) :
            constraints[Root][c].kind \in {"singularItems", "linearItems", "properties"} =>
                LET V == Visitor(call.target, <<>>, call.strict, TRUE, call.ub)
                    constraint == constraints[Root][c]
                    r == visit(V, constraint, RunState(call.pre))
                    E == SubSeq(r.st.res, Len(call.pre) + 1, Len(r.st.res))
                    atChild(k) == E[k].jsonPointer # <<>>
                    child(k) == E[k].context[2]
                    item(i) == contextEntry(arrayContext(V, i)[1])
                    member(name) == contextEntry(objectContext(V, name)[1])
                    indexOf(k) == CHOOSE i \in 0..Len(call.target.a) : child(k) = item(i)
                    \* the summaries that the failure of child(k) can have
                    summaries(k) ==
                        {"Failed to validate item #" \o ToString(i) \o rest :
                            i \in {j \in 0..(Len(call.target.a) - 1) : child(k) = item(j)},
                            rest \in {" in array.", " against corresponding item schema.",
                                      " against additional items schema."}}
                        \cup
                        UNION {{"Failed to validate against schema associated with property name '"
                                    \o Text(call.target.o[m].k) \o "' in properties constraint.",
                                "Failed to validate property '" \o Text(call.target.o[m].k)
                                    \o "' against schema in additionalProperties constraint."}
                               \cup {"Failed to validate against schema associated with regex '"
                                         \o Text(constraint.patternProperties[p].name)
                                         \o "' in patternProperties constraint." :
                                      p \in 1..Len(constraint.patternProperties)} :
                               m \in {n \in 1..Len(call.target.o) :
                                         child(k) = member(call.target.o[n].k)}}
                IN /\ \A k \in 1..Len(E) :
                          atChild(k) =>
                              \E s \in (k + 1)..Len(E) :
                                  /\ ~atChild(s)
                                  /\ E[s].description \in summaries(k)
                                  /\ \A m \in k..(s - 1) :
                                         atChild(m) /\ child(m) = child(k)
                                  /\ (s < Len(E) /\ ~atChild(s + 1)) =>
                                         E[s + 1].description \notin summaries(k)
                   /\ isArray(call.target) =>
                          \A k1, k2 \in 1..Len(E) :
                              (k1 < k2 /\ atChild(k1) /\ atChild(k2)) =>
                                  indexOf(k1) <= indexOf(k2)

----------------------------------------------------------------------------
(* The arena of a Schema: createSubschema and addConstraintToSubschema *)

\* References a caller can hold that this Schema has not handed out: a
\* Subschema of another Schema and the shared empty Subschema
NotOwned == {5, 6}

ArenaPool == {MinimumConstraint(4, FALSE), NotConstraint(2)}

InitSchema ==
    /\ InitResults
    /\ constraints = [subschema \in SubIds |-> <<>>]
    /\ phase = "build"
    /\ strictTypes = TRUE
    /\ call = NoCall
    /\ prev = NoCall
    /\ pool = ArenaPool
    /\ doc = JNull
    /\ threads = <<>>
    /\ subschemaSet = {}
    /\ raised = NoRaise
    /\ resolved = NoResolve

\* Schema::createSubschema: a new empty Subschema, registered in the
\* ownership set
createSubschema ==
    /\ SubIds \ ({Root} \cup NotOwned \cup subschemaSet) # {}
    /\ LET subschema == CHOOSE id \in SubIds \ ({Root} \cup NotOwned \cup subschemaSet) :
                            \A other \in SubIds \ ({Root} \cup NotOwned \cup subschemaSet) :
                                id <= other
       IN /\ subschemaSet' = subschemaSet \cup {subschema}
          /\ raised' = [op |-> "createSubschema", subschema |-> subschema, error |-> "none"]
    /\ UNCHANGED <<validatorVars, resolved, threads>>
    /\ UNCHANGED resultsVars

\* An addConstraintToSubschema without the check of the ownership set
addConstraintToSubschema_unchecked(constraint, subschema) ==
    /\ Len(constraints[subschema]) < MaxConstraints
    /\ constraints' = [constraints EXCEPT ![subschema] = Append(@, constraint)]
    /\ raised' = [op |-> "addConstraintToSubschema", subschema |-> subschema,
                  error |-> "none"]
    /\ UNCHANGED <<phase, strictTypes, call, prev, pool, doc, threads>>
    /\ UNCHANGED <<subschemaSet, resolved>>
    /\ UNCHANGED resultsVars

\* Schema::addConstraintToSubschema: the constraint is appended to the list
\* of a Subschema of this Schema; any other reference is a usage error
addConstraintToSubschema(constraint, subschema) ==
    /\ Len(constraints[subschema]) < MaxConstraints
    /\ IF subschema = Root \/ subschema \in subschemaSet
       THEN /\ constraints' = [constraints EXCEPT ![subschema] = Append(@, constraint)]
            /\ raised' = [op |-> "addConstraintToSubschema", subschema |-> subschema,
                          error |-> "none"]
       ELSE /\ constraints' = constraints
            /\ raised' = [op |-> "addConstraintToSubschema", subschema |-> subschema,
                          error |-> "usage error"]
    /\ UNCHANGED <<phase, strictTypes, call, prev, pool, doc, threads>>
    /\ UNCHANGED <<subschemaSet, resolved>>
    /\ UNCHANGED resultsVars

NextArena ==
    \/ createSubschema
    \/ \E constraint \in pool, subschema \in SubIds :
           addConstraintToSubschema(constraint, subschema)

SpecArena == InitSchema /\ [][NextArena]_vars

\* C18: addConstraintToSubschema with a reference that is neither the root
\* nor a Subschema that createSubschema of this Schema has returned raises a
\* usage error and leaves the constraint list of every Subschema as it was;
\* with a reference of this Schema it raises nothing and appends to the
\* list of that Subschema only.
C18_OnlyOwnedSubschemasAreChanged ==
    [][raised'.op = "addConstraintToSubschema" =>
          IF raised'.subschema = Root \/ raised'.subschema \in subschemaSet
          THEN /\ raised'.error = "none"
               /\ Len(constraints'[raised'.subschema])
                      = Len(constraints[raised'.subschema]) + 1
               /\ \A other \in SubIds \ {raised'.subschema} :
                      constraints'[other] = constraints[other]
          ELSE /\ raised'.error = "usage error"
               /\ constraints' = constraints]_vars

\* After the Schema has created Subschemas and populated one of them, a
\* reference it does not own was refused
C18_Witness ==
    /\ raised.op = "addConstraintToSubschema"
    /\ raised.error = "usage error"
    /\ raised.subschema \notin subschemaSet \cup {Root}
    /\ subschemaSet # {}
    /\ \E subschema \in subschemaSet : constraints[subschema] # <<>>
    /\ \A subschema \in SubIds \ (subschemaSet \cup {Root}) : constraints[subschema] = <<>>

----------------------------------------------------------------------------
(* json_pointer::resolveJsonPointer *)

DigitValue(ch) ==
    CASE ch = "0" -> 0 [] ch = "1" -> 1 [] ch = "2" -> 2 [] ch = "3" -> 3
      [] ch = "4" -> 4 [] ch = "5" -> 5 [] ch = "6" -> 6 [] ch = "7" -> 7
      [] ch = "8" -> 8 [] ch = "9" -> 9

\* boost::lexical_cast<uint64_t>: -1 stands for bad_lexical_cast
RECURSIVE lexical_cast(_, _)
lexical_cast(text, value) ==
    IF text = <<>> THEN value
    ELSE IF Head(text) \notin Digits THEN 0 - 1
    ELSE lexical_cast(Tail(text), 10 * value + DigitValue(Head(text)))

Resolved(ret, value, outOfBounds) ==
    [ret |-> ret, value |-> value, outOfBounds |-> outOfBounds]

\* What reading the element behind an iterator that was moved past the end
\* of its array can do: the process faults, or the read yields a stray value
StrayReads ==
    {[fault |-> TRUE, node |-> JNull], [fault |-> FALSE, node |-> JNull],
     [fault |-> FALSE, node |-> JArray(<<>>)]}

\* resolveJsonPointer(node, jsonPointer, jsonPointerItr); outOfBounds records
\* that a token named an index at or after the end of the array it was
\* applied to. "index > size() - 1" is computed in unsigned arithmetic: for
\* an empty array size() - 1 is the greatest value of size_t, which no index
\* exceeds.
RECURSIVE resolveJsonPointer(_, _, _, _, _)
resolveJsonPointer(node, jsonPointer, jsonPointerItr, stray, outOfBounds) ==
    IF jsonPointerItr > Len(jsonPointer) THEN Resolved("value", node, outOfBounds)
    ELSE IF jsonPointer[jsonPointerItr] # "/" THEN Resolved("throw", JNull, outOfBounds)
    ELSE
    LET jsonPointerNext == findSlash(jsonPointer, jsonPointerItr + 1)
        referenceToken == extractReferenceToken(
                              SubSeq(jsonPointer, jsonPointerItr + 1, jsonPointerNext - 1))
    IN IF referenceToken = <<>>
       THEN resolveJsonPointer(node, jsonPointer, jsonPointerNext, stray, outOfBounds)
       ELSE IF isArray(node)
       THEN IF referenceToken = <<"-">> THEN Resolved("throw", JNull, outOfBounds)
            ELSE LET index == lexical_cast(referenceToken, 0)
                     size == Len(asArray(node))
                     beyond == index >= size
                 IN IF index < 0 THEN Resolved("throw", JNull, outOfBounds)
                    ELSE IF size # 0 /\ index > size - 1
                    THEN Resolved("throw", JNull, outOfBounds \/ beyond)
                    ELSE IF index >= size
                    THEN IF stray.fault THEN Resolved("fault", JNull, TRUE)
                         ELSE LET r == resolveJsonPointer(stray.node, jsonPointer,
                                           jsonPointerNext, stray, TRUE)
                              IN IF r.ret = "value"
                                 THEN Resolved("stray", r.value, TRUE)
                                 ELSE r
                    ELSE resolveJsonPointer(asArray(node)[index + 1], jsonPointer,
                                            jsonPointerNext, stray, outOfBounds)
       ELSE IF maybeObject(node)
       THEN IF ~findMember(asObject(node), referenceToken)
            THEN Resolved("throw", JNull, outOfBounds)
            ELSE LET itr == CHOOSE i \in 1..Len(asObject(node)) :
                                asObject(node)[i].k = referenceToken
                 IN resolveJsonPointer(asObject(node)[itr].v, jsonPointer,
                                       jsonPointerNext, stray, outOfBounds)
       ELSE Resolved("throw", JNull, outOfBounds)

ReferenceTokens == {<<>>, <<"0">>, <<"1">>, <<"3">>, <<"a">>, <<"-">>, <<"~", "1">>}

JsonPointers ==
    {<<>>, <<"0">>}
        \cup {<<"/">> \o t : t \in ReferenceTokens}
        \cup {<<"/">> \o t \o <<"/">> \o u : t \in ReferenceTokens, u \in ReferenceTokens}

\* The documents of Docs, two that hold an array below the root,
\* and three whose keys are empty or hold '/' and '~'
ResolveDocs ==
    Docs \cup {JObject(<<Member(<<"a">>, JArray(<<>>))>>),
               JArray(<<JArray(<<JInt(1)>>), JObject(<<Member(<<"/">>, JInt(3))>>)>>),
               JObject(<<Member(<<>>, JInt(1)), Member(<<"/">>, JInt(3)),
                         Member(<<"~">>, JString(<<"a", "b">>))>>),
               JObject(<<Member(<<"~", "1">>,
                                JArray(<<JInt(1), JObject(<<Member(<<"~", "0">>, JNull)>>)>>))>>),
               JObject(<<Member(<<"a">>, JObject(<<Member(<<>>, JBool(TRUE))>>))>>)}

InitResolve ==
    /\ InitResults
    /\ InitValidator
    /\ InitArena
    /\ pool = {}
    /\ doc \in ResolveDocs
    /\ threads = <<>>

\* json_pointer::resolveJsonPointer(rootNode, jsonPointer)
resolve(rootNode, jsonPointer, stray) ==
    /\ LET r == resolveJsonPointer(rootNode, jsonPointer, 1, stray, FALSE)
       IN resolved' = [NoResolve EXCEPT !.node = rootNode, !.jsonPointer = jsonPointer,
                                        !.ret = r.ret, !.value = r.value,
                                        !.outOfBounds = r.outOfBounds]
    /\ UNCHANGED <<validatorVars, subschemaSet, raised, threads>>
    /\ UNCHANGED resultsVars

\* The name of the segment for the array index i: its decimal text
indexName(index) == <<CHOOSE ch \in Digits : DigitValue(ch) = index>>

\* The Paths of object keys and array indexes that reach a node of the
\* document below node, the empty Path for node itself included
RECURSIVE NodePaths(_)
NodePaths(node) ==
    {<<>>}
        \cup UNION {{<<[kind |-> "kArray", name |-> indexName(i - 1)]>> \o path :
                        path \in NodePaths(node.a[i])} : i \in 1..Len(node.a)}
        \cup UNION {{<<[kind |-> "kObject", name |-> node.o[i].k]>> \o path :
                        path \in NodePaths(node.o[i].v)} : i \in 1..Len(node.o)}

\* The node that path reaches from node
RECURSIVE nodeAt(_, _)
nodeAt(node, path) ==
    IF path = <<>> THEN node
    ELSE IF Head(path).kind = "kArray"
    THEN nodeAt(node.a[DigitValue(Head(path).name[1]) + 1], Tail(path))
    ELSE nodeAt(node.o[CHOOSE i \in 1..Len(node.o) : node.o[i].k = Head(path).name].v,
                Tail(path))

\* resolveJsonPointer(rootNode, jsonPointer) for the jsonPointer that
\* ValidationResults records for path
resolvePath(rootNode, path, stray) ==
    /\ LET jsonPointer == toJsonPointer(path)
           r == resolveJsonPointer(rootNode, jsonPointer, 1, stray, FALSE)
       IN resolved' = [NoResolve EXCEPT !.node = rootNode, !.jsonPointer = jsonPointer,
                                        !.ret = r.ret, !.value = r.value,
                                        !.outOfBounds = r.outOfBounds,
                                        !.path = path, !.fromPath = TRUE]
    /\ UNCHANGED <<validatorVars, subschemaSet, raised, threads>>
    /\ UNCHANGED resultsVars

NextResolve ==
    \/ \E jsonPointer \in JsonPointers, stray \in StrayReads : resolve(doc, jsonPointer, stray)
    \/ \E path \in NodePaths(doc), stray \in StrayReads : resolvePath(doc, path, stray)

SpecResolve == InitResolve /\ [][NextResolve]_vars

\* C19: resolveJsonPointer raises an error whenever a reference token that
\* is applied to an array is an index at or after the end of the array,
\* the empty array included, and never moves past the last element.
C19_IndexBeyondArrayRaises ==
    /\ resolved.outOfBounds => resolved.ret = "throw"
    /\ resolved.ret \notin {"fault", "stray"}

----------------------------------------------------------------------------
(* examples/custom_schema.cpp: a Schema built by hand *)

\* The example creates the Subschemas 2, 3, 4 and 5, for category,
\* description, price and title. emptySubschema is the shared empty
\* Subschema, HeaderSchema the root of the Schema that SchemaParser builds
\* from the JSON Schema of the header comment.
emptySubschema == 6
HeaderSchema == 7

\* propertySchemaMap, in the order of the std::map
propertySchemaMap ==
    <<PropertySchema(<<"category">>, 2),
      PropertySchema(<<"description">>, 3),
      PropertySchema(<<"price">>, 4),
      PropertySchema(<<"title">>, 5)>>

\* makePropertiesConstraint, makeRequiredConstraint and makeTypeConstraint on
\* the object of the header comment: without an "additionalProperties"
\* member the additional properties Subschema is the empty Subschema
HeaderConstraints ==
    <<PropertiesConstraint(propertySchemaMap, <<>>, emptySubschema),
      RequiredConstraint(<<<<"category">>, <<"price">>, <<"title">>>>),
      TypeConstraint({"object"}, <<>>)>>

\* The members a target document can hold, each absent or with one of a few
\* values, and some targets that are not objects
MemberChoices(name, values) == {<<>>} \cup {<<Member(name, v)>> : v \in values}

ExampleDocs ==
    {JObject(c \o d \o p \o t \o x) :
        c \in MemberChoices(<<"category">>, {JString(<<"b", "o", "o", "k">>), JString(<<"c", "d">>)}),
        d \in MemberChoices(<<"description">>, {JString(<<"d">>), JInt(1)}),
        p \in MemberChoices(<<"price">>, {JInt(1), JInt(0), JString(<<"1">>)}),
        t \in MemberChoices(<<"title">>, {JString(<<"t">>), JString(<<>>)}),
        x \in MemberChoices(<<"isbn">>, {JInt(3)})}
    \cup {JNull, JString(<<>>), JArray(<<>>)}

InitExample ==
    /\ InitResults
    /\ constraints = [subschema \in 1..HeaderSchema |->
                          IF subschema = HeaderSchema THEN HeaderConstraints ELSE <<>>]
    /\ phase = "build"
    /\ strictTypes = TRUE
    /\ call = NoCall
    /\ prev = NoCall
    /\ pool = {}
    /\ doc \in ExampleDocs
    /\ threads = <<>>
    /\ subschemaSet = {}
    /\ raised = NoRaise
    /\ resolved = NoResolve

\* addPropertiesConstraint(schema): four Subschemas are created and
\* populated, and a PropertiesConstraint over them, made by the constructor
\* that takes the properties only, is added to the root
addPropertiesConstraint ==
    /\ phase = "build"
    /\ constraints[Root] = <<>>
    /\ subschemaSet' = subschemaSet \cup {2, 3, 4, 5}
    /\ constraints' =
           [constraints EXCEPT
               ![2] = <<EnumConstraint(<<JString(<<"a", "l", "b", "u", "m">>),
                                         JString(<<"b", "o", "o", "k">>),
                                         JString(<<"o", "t", "h", "e", "r">>),
                                         JString(<<"v", "i", "d", "e", "o">>)>>)>>,
               ![3] = <<TypeConstraint({"string"}, <<>>)>>,
               ![4] = <<MinimumConstraint(0, TRUE), TypeConstraint({"number"}, <<>>)>>,
               ![5] = <<MaxLengthConstraint(200), MinLengthConstraint(1),
                        TypeConstraint({"string"}, <<>>)>>,
               ![Root] = <<PropertiesConstraint(propertySchemaMap, <<>>, 0)>>]
    /\ raised' = [op |-> "addConstraintToSubschema", subschema |-> 5,
                  error |-> "none"]
    /\ UNCHANGED <<phase, strictTypes, call, prev, pool, doc, threads, resolved>>
    /\ UNCHANGED resultsVars

\* addRequiredConstraint(schema)
addRequiredConstraint ==
    /\ phase = "build"
    /\ Len(constraints[Root]) = 1
    /\ constraints' = [constraints EXCEPT
                          ![Root] = Append(@, RequiredConstraint(
                                        <<<<"category">>, <<"price">>, <<"title">>>>))]
    /\ UNCHANGED <<phase, strictTypes, call, prev, pool, doc, threads>>
    /\ UNCHANGED resultsVars
    /\ UNCHANGED arenaVars

\* addTypeConstraint(schema)
addTypeConstraint ==
    /\ phase = "build"
    /\ Len(constraints[Root]) = 2
    /\ constraints' = [constraints EXCEPT
                          ![Root] = Append(@, TypeConstraint({"object"}, <<>>))]
    /\ UNCHANGED <<phase, strictTypes, call, prev, pool, doc, threads>>
    /\ UNCHANGED resultsVars
    /\ UNCHANGED arenaVars

\* main: the schema is populated, then a Validator validates the document
\* with a ValidationResults of its own
NextExample ==
    \/ addPropertiesConstraint
    \/ addRequiredConstraint
    \/ addTypeConstraint
    \/ Len(constraints[Root]) = 3 /\ NewValidator
    \/ validate(doc, "fresh")

SpecExample == InitExample /\ [][NextExample]_vars

\* C20: the Schema that the example builds by hand accepts exactly the
\* documents that the JSON Schema of its header comment accepts; an object
\* with valid category, price and title members and a member that
\* "properties" does not list is accepted.
C20_ExampleAcceptsWhatHeaderSchemaAccepts ==
    call.ret \in {"true", "false"} =>
        LET V == Visitor(call.target, <<>>, call.strict, FALSE, call.ub)
        IN (call.ret = "true") <=> validateSchema(V, HeaderSchema, RunState(<<>>)).ok

----------------------------------------------------------------------------
(* Properties of the object and array constraints *)

\* C21: visiting a Properties constraint on an object validates a member
\* against the additionalProperties Subschema only when its name matches no
\* property name and no patternProperties regex (and then it does); a member
\* that nothing matches makes the constraint fail when additionalProperties
\* is absent, and never when it is the empty Subschema.
C21_AdditionalPropertiesForUnmatchedOnly ==
    (call.ret \in {"true", "false"} /\ isObject(call.target)) =>
        \A c \in 1..Len(constraints[Root]) :
            constraints[Root][c].kind = "properties" =>
                LET hs == call.sink # "null"
                    V == Visitor(call.target, <<>>, call.strict, hs, call.ub)
                    constraint == constraints[Root][c]
                    r == visit(V, constraint, RunState(call.pre))
                    obj == call.target.o
                    literal(m) == {constraint.properties[i].subschema :
                                      i \in {j \in 1..Len(constraint.properties) :
                                                constraint.properties[j].name = obj[m].k}}
                    pattern(m) == {constraint.patternProperties[i].subschema :
                                      i \in {j \in 1..Len(constraint.patternProperties) :
                                                regex_search(obj[m].k,
                                                    constraint.patternProperties[j].name)}}
                    unmatched(m) == literal(m) \cup pattern(m) = {}
                    valid(m, subschema) ==
                        validateSchema(Visitor(obj[m].v, objectContext(V, obj[m].k),
                                               call.strict, FALSE, call.ub),
                                       subschema, RunState(<<>>)).ok
                    visited(m, subschema) ==
                        \E k \in 1..Len(r.st.log) :
                            /\ r.st.log[k].subschema = subschema
                            /\ r.st.log[k].context = objectContext(V, obj[m].k)
                IN /\ \A m \in 1..Len(obj) :
                          (~unmatched(m) /\ constraint.extra \notin literal(m) \cup pattern(m))
                              => ~visited(m, constraint.extra)
                   /\ \A m \in 1..Len(obj) :
                          (hs /\ unmatched(m) /\ constraint.extra # 0
                              /\ constraints[constraint.extra] # <<>>)
                              => visited(m, constraint.extra)
                   /\ r.ok <=> \A m \in 1..Len(obj) :
                                  /\ \A subschema \in literal(m) \cup pattern(m) :
                                         valid(m, subschema)
                                  /\ unmatched(m) =>
                                         /\ constraint.extra # 0
                                         /\ valid(m, constraint.extra)
                   /\ Len(constraints[Root]) = 1 => ((call.ret = "true") <=> r.ok)

\* Three calls on the object with the members a and b, where nothing matches
\* b: without additionalProperties the constraint failed, with the empty
\* Subschema it passed, and with a Subschema that rejects b it failed while
\* a, matched by a property and a pattern, was kept away from it
C21_Witness ==
    /\ call.sink = "fresh"
    /\ Len(call.target.o) = 2
    /\ Len(constraints[Root]) = 1
    /\ constraints[Root][1].kind = "properties"
    /\ \/ constraints[Root][1].extra = 0 /\ call.ret = "false"
       \/ /\ constraints[Root][1].extra # 0
          /\ constraints[constraints[Root][1].extra] = <<>>
          /\ call.ret = "true"
       \/ /\ constraints[Root][1].patternProperties # <<>>
          /\ call.ret = "false"
          /\ \E k \in 1..Len(call.log) :
                 /\ call.log[k].subschema = constraints[Root][1].extra
                 /\ call.log[k].context # <<>>

\* C22: visiting a LinearItems constraint on an array, in either mode,
\* validates the element at an index i below the number of positional
\* Subschemas against the i-th positional Subschema only, and validates
\* against the additionalItems Subschema only the elements at an index at or
\* beyond that number, even after a positional element has failed.
C22_PositionalElementsKeepTheirSubschema ==
    (call.ret \in {"true", "false"} /\ isArray(call.target)) =>
        \A c \in 1..Len(constraints[Root]) :
            constraints[Root][c].kind = "linearItems" =>
                LET V == Visitor(call.target, <<>>, call.strict, call.sink # "null", call.ub)
                    constraint == constraints[Root][c]
                    r == visit(V, constraint, RunState(call.pre))
                    itemSubschemaCount == Len(constraint.subschemas)
                    \* the Subschemas the element at index i (from 0) was
                    \* validated against
                    against(i) == {r.st.log[k].subschema :
                                      k \in {j \in 1..Len(r.st.log) :
                                                r.st.log[j].context = arrayContext(V, i)}}
                IN \A i \in 0..(Len(call.target.a) - 1) :
                       IF i < itemSubschemaCount
                       THEN against(i) \subseteq {constraint.subschemas[i + 1]}
                       ELSE against(i) \subseteq {constraint.extra}

\* C23: visiting a Dependencies constraint returns true on a target that
\* is not an object; on an object it returns true if and only if, for every
\* member key with property dependencies, every name it depends on is a
\* member key too, and, for every member key with a schema dependency, the
\* whole target object (not the member's value) validates against the
\* dependent Subschema.
C23_DependenciesOfPresentKeys ==
    call.ret \in {"true", "false"} =>
        \A c \in 1..Len(constraints[Root]) :
            constraints[Root][c].kind = "dependencies" =>
                LET hs == call.sink # "null"
                    V == Visitor(call.target, <<>>, call.strict, hs, call.ub)
                    constraint == constraints[Root][c]
                    r == visit(V, constraint, RunState(call.pre))
                    obj == call.target.o
                    keys == {obj[m].k : m \in 1..Len(obj)}
                    propertyDependencies == constraint.propertyDependencies
                    schemaDependencies == constraint.schemaDependencies
                    whole(subschema) ==
                        validateSchema(Visitor(call.target, <<>>, call.strict, FALSE, call.ub),
                                       subschema, RunState(<<>>)).ok
                IN /\ ~isObject(call.target) => r.ok
                   /\ isObject(call.target) =>
                          (r.ok <=>
                              /\ \A i \in 1..Len(propertyDependencies) :
                                     propertyDependencies[i].name \in keys =>
                                         \A j \in 1..Len(propertyDependencies[i].names) :
                                             propertyDependencies[i].names[j] \in keys
                              /\ \A i \in 1..Len(schemaDependencies) :
                                     schemaDependencies[i].name \in keys =>
                                         whole(schemaDependencies[i].subschema))
                   /\ Len(constraints[Root]) = 1 => ((call.ret = "true") <=> r.ok)

\* A call with one Dependencies constraint on an object that has a key with
\* a dependency: a present key whose dependency is missing, or whose
\* dependent Subschema the object fails, made it return false, and an
\* object with every dependency met made it return true
C23_Witness ==
    /\ isObject(call.target)
    /\ Len(constraints[Root]) = 1
    /\ constraints[Root][1].kind = "dependencies"
    /\ \/ /\ call.ret = "false"
          /\ \E i \in 1..Len(constraints[Root][1].schemaDependencies) :
                 findMember(call.target.o, constraints[Root][1].schemaDependencies[i].name)
       \/ /\ call.ret = "false"
          /\ \E i \in 1..Len(constraints[Root][1].propertyDependencies) :
                 findMember(call.target.o, constraints[Root][1].propertyDependencies[i].name)
       \/ /\ call.ret = "true"
          /\ \E i \in 1..Len(constraints[Root][1].schemaDependencies) :
                 findMember(call.target.o, constraints[Root][1].schemaDependencies[i].name)

\* C24: visiting a Type constraint returns true if and only if the named
\* types include 'any', or the type tag of the target matches a named type,
\* or strictTypes is false and the coercion predicate of a named type
\* (maybeObject, maybeArray, maybeString, maybeDouble, maybeInteger,
\* maybeBool, maybeNull) holds of the target, or the target validates against
\* one of the schema-typed alternatives.
C24_TypeAcceptsTagCoercionOrAlternative ==
    call.ret \in {"true", "false"} =>
        \A c \in 1..Len(constraints[Root]) :
            constraints[Root][c].kind = "type" =>
                LET V == Visitor(call.target, <<>>, call.strict, call.sink # "null", call.ub)
                    constraint == constraints[Root][c]
                    r == visit(V, constraint, RunState(call.pre))
                    tag(jsonType) ==
                        CASE jsonType = "any"     -> FALSE
                          [] jsonType = "array"   -> isArray(call.target)
                          [] jsonType = "boolean" -> isBool(call.target)
                          [] jsonType = "integer" -> isInteger(call.target)
                          [] jsonType = "null"    -> isNull(call.target)
                          [] jsonType = "number"  -> isNumber(call.target)
                          [] jsonType = "object"  -> isObject(call.target)
                          [] jsonType = "string"  -> isString(call.target)
                    coercion(jsonType) ==
                        CASE jsonType = "any"     -> FALSE
                          [] jsonType = "array"   -> maybeArray(call.target)
                          [] jsonType = "boolean" -> maybeBool(call.target)
                          [] jsonType = "integer" -> maybeInteger(call.target)
                          [] jsonType = "null"    -> maybeNull(call.target)
                          [] jsonType = "number"  -> maybeDouble(call.target)
                          [] jsonType = "object"  -> maybeObject(call.target)
                          [] jsonType = "string"  -> maybeString(call.target)
                    alternative(subschema) ==
                        validateSchema(Visitor(call.target, <<>>, call.strict, FALSE, call.ub),
                                       subschema, RunState(<<>>)).ok
                IN r.ok <=>
                       \/ "any" \in constraint.types
                       \/ \E jsonType \in constraint.types : tag(jsonType)
                       \/ ~call.strict /\ \E jsonType \in constraint.types : coercion(jsonType)
                       \/ \E i \in 1..Len(constraint.subschemas) :
                              alternative(constraint.subschemas[i])

\* C25: when the MultipleOf divisor is an integer, a numeric target passes
\* if and only if it is zero, or it converts to a 64-bit integer without
\* loss of value and that integer modulo the divisor is zero; a target with
\* a fraction is never accepted on the strength of its truncated value.
C25_IntegerDivisorNeedsLosslessTarget ==
    (call.ret \in {"true", "false"} /\ isNumber(call.target)) =>
        \A c \in 1..Len(constraints[Root]) :
            (constraints[Root][c].kind = "multipleOf" /\ constraints[Root][c].flag) =>
                LET V == Visitor(call.target, <<>>, call.strict, call.sink # "null", call.ub)
                    divisor == constraints[Root][c].num
                    r == visit(V, constraints[Root][c], RunState(call.pre))
                    halves == call.target.n
                IN r.ok <=> \/ halves = 0
                            \/ halves % 2 = 0 /\ (halves \div 2) % divisor = 0

\* The nesting depth of a document: 0 for a scalar, one more than the
\* deepest child for an array or an object
RECURSIVE documentDepth(_)
documentDepth(node) ==
    LET children == {node.a[i] : i \in 1..Len(node.a)} \cup {node.o[i].v : i \in 1..Len(node.o)}
        deeper == {documentDepth(child) : child \in children}
    IN IF isArray(node) \/ isObject(node)
       THEN 1 + (IF deeper = {} THEN 0 ELSE CHOOSE d \in deeper : \A e \in deeper : e <= d)
       ELSE 0

\* The Subschemas a constraint holds a pointer to
references(constraint) ==
    {constraint.subschemas[i] : i \in 1..Len(constraint.subschemas)}
        \cup ({constraint.extra} \ {0})
        \cup {constraint.properties[i].subschema : i \in 1..Len(constraint.properties)}
        \cup {constraint.patternProperties[i].subschema :
                  i \in 1..Len(constraint.patternProperties)}
        \cup {constraint.schemaDependencies[i].subschema :
                  i \in 1..Len(constraint.schemaDependencies)}

\* The length of the longest chain of references that starts at subschema
RECURSIVE referenceDepth(_)
referenceDepth(subschema) ==
    LET referenced == UNION {references(constraints[subschema][i]) :
                                i \in 1..Len(constraints[subschema])}
        deeper == {referenceDepth(child) : child \in referenced}
    IN IF deeper = {} THEN 0
       ELSE 1 + CHOOSE d \in deeper : \A e \in deeper : e <= d

\* C26 (as stated): during one validate call the depth of nested
\* validateSchema invocations is bounded by the nesting depth of the target
\* document alone, one invocation for the root and one for each level of
\* arrays and objects, however the Subschemas are nested.
C26_DepthFollowsTheDocumentAlone ==
    call.ret \in {"true", "false"} =>
        \A k \in 1..Len(call.log) : call.log[k].depth <= 1 + documentDepth(call.target)

\* C26 (amended): every descent into a child Subschema adds one invocation,
\* whether it moves to a child node of the document or stays on the same
\* node: a constraint visited at depth d > 1 belongs to a Subschema that a
\* constraint visited before it at depth d - 1 refers to, the depth at a
\* node is at least one more than the depth of the node in the document,
\* and it never exceeds one more than the longest chain of references from
\* the root Subschema.
C26_DepthFollowsTheSubschemaReferences ==
    call.ret \in {"true", "false"} =>
        \A k \in 1..Len(call.log) :
            LET entry == call.log[k]
            IN /\ Len(entry.context) + 1 <= entry.depth
               /\ entry.depth <= 1 + referenceDepth(Root)
               /\ entry.depth = 1 <=> entry.subschema = Root
               /\ entry.depth > 1 =>
                      \E j \in 1..(k - 1) :
                          /\ call.log[j].depth = entry.depth - 1
                          /\ entry.subschema \in
                                 references(constraints[call.log[j].subschema]
                                                       [call.log[j].index])

\* A call on a scalar in which a constraint was visited three invocations
\* deep: the root, the Subschema of its not, and a child of the anyOf there
C26_Witness ==
    /\ call.ret \in {"true", "false"}
    /\ documentDepth(call.target) = 0
    /\ \E k \in 1..Len(call.log) : call.log[k].depth = 3 /\ call.log[k].context = <<>>

\* C27: in collect-all mode, whenever validateSchema returns true at the
\* root, the sink holds exactly the errors it held before the call, also when
\* anyOf children, oneOf children or schema-typed 'type' alternatives were
\* tried and rejected on the way.
C27_SuccessLeavesTheSinkAlone ==
    (call.sink \in {"fresh", "used"} /\ call.ret = "true") =>
        /\ call.errors = call.pre
        /\ m_errors = call.pre

\* C28: in collect-all mode, whenever validateSchema returns false at the
\* root, at least one error was appended to the sink during that call,
\* whatever the kinds of the constraints visited.
C28_FailureLeavesAnError ==
    /\ (call.sink \in {"fresh", "used"} /\ call.ret = "false") =>
           /\ Len(call.errors) > Len(call.pre)
           /\ SubSeq(call.errors, 1, Len(call.pre)) = call.pre
           /\ m_errors = call.errors
    /\ (call.sink \in {"fresh", "used"} /\ call.ret \in {"true", "false"}) =>
           \A c \in 1..Len(constraints[Root]) :
               LET V == Visitor(call.target, <<>>, call.strict, TRUE, call.ub)
                   r == visit(V, constraints[Root][c], RunState(call.pre))
               IN (~r.ok /\ ~r.st.crash) => Len(r.st.res) > Len(call.pre)

\* A collect-all call on a number that a MultipleOf with an integer divisor
\* refused: it returned false and the sink holds one error more
C28_Witness ==
    /\ call.sink \in {"fresh", "used"}
    /\ call.ret = "false"
    /\ Len(constraints[Root]) = 1
    /\ constraints[Root][1].kind = "multipleOf"
    /\ constraints[Root][1].flag
    /\ isNumber(call.target)
    /\ Len(call.errors) = Len(call.pre) + 1

\* C29: visiting a UniqueItems constraint on an empty array or on an array
\* of one element terminates, returns true, pushes no error and never steps
\* an iterator outside the array.
C29_UniqueItemsOnShortArrays ==
    (call.ret # "none" /\ isArray(call.target) /\ Len(call.target.a) <= 1) =>
        \A c \in 1..Len(constraints[Root]) :
            constraints[Root][c].kind = "uniqueItems" =>
                LET V == Visitor(call.target, <<>>, call.strict, call.sink # "null", call.ub)
                    r == visit(V, constraints[Root][c], RunState(call.pre))
                IN /\ ~r.st.crash
                   /\ r.ok
                   /\ r.st.res = call.pre
                   /\ Len(constraints[Root]) = 1 => call.ret = "true"

----------------------------------------------------------------------------
(* Concurrent use: two threads validate different documents against the
   Schema of one Validator, each with a sink of its own *)

Threads == {1, 2}

ConcDocs ==
    {JInt(1), JString(<<"a", "b">>), JArray(<<>>),
     JArray(<<JInt(3), JString(<<"a", "b">>), JInt(3)>>)}

\* A thread inside Validator::validate: the visitor it has built (target,
\* strict), where it stands in the loop of Subschema::apply over the root's
\* constraints (i, allTrue) and the state of its run (st, with its own sink).
\* overlap notes that the other thread was inside its loop during a step of
\* this one.
IdleThread ==
    [status |-> "idle", target |-> JNull, strict |-> TRUE, i |-> 1,
     allTrue |-> TRUE, st |-> RunState(<<>>), ret |-> "none", overlap |-> FALSE]

Other(t) == CHOOSE u \in Threads : u # t

\* Validator::validate entered by thread t: the visitor is built
Begin(t, target) ==
    /\ phase = "ready"
    /\ threads[t].status = "idle"
    /\ threads[Other(t)].target # target
    /\ \A u \in Threads : threads[u].status # "crashed"
    /\ threads' = [threads EXCEPT ![t] =
                      [IdleThread EXCEPT !.status = "running", !.target = target,
                                         !.strict = strictTypes]]
    /\ UNCHANGED <<constraints, phase, strictTypes, call, prev, pool, doc>>
    /\ UNCHANGED resultsVars
    /\ UNCHANGED arenaVars

\* One iteration of the loop of Subschema::apply by thread t, with sink as
\* the errors of the sink its visitor writes to
Iterate(t, sink) ==
    LET th == threads[t]
        V == Visitor(th.target, <<>>, th.strict, TRUE, "fault")
        r == IF th.allTrue
             THEN validationCallback(V, Root, th.i, [th.st EXCEPT !.res = sink])
             ELSE Ret(FALSE, [th.st EXCEPT !.res = sink])
        inLoop == threads[Other(t)].status = "running" /\ threads[Other(t)].i > 1
    IN [th EXCEPT !.i = @ + 1, !.allTrue = r.ok, !.st = r.st,
                  !.status = IF r.st.crash THEN "crashed" ELSE @,
                  !.overlap = @ \/ inLoop]

\* Step with the threads writing to one sink between them
Step_sharedSink(t) ==
    /\ threads[t].status = "running"
    /\ threads[t].i <= Len(constraints[Root])
    /\ \A u \in Threads : threads[u].status # "crashed"
    /\ LET th == Iterate(t, threads[1].st.res)
       IN threads' = [u \in Threads |->
                         IF u = t THEN th
                         ELSE [threads[u] EXCEPT !.st.res = th.st.res]]
    /\ UNCHANGED <<constraints, phase, strictTypes, call, prev, pool, doc>>
    /\ UNCHANGED resultsVars
    /\ UNCHANGED arenaVars

Step(t) ==
    /\ threads[t].status = "running"
    /\ threads[t].i <= Len(constraints[Root])
    /\ \A u \in Threads : threads[u].status # "crashed"
    /\ threads' = [threads EXCEPT ![t] = Iterate(t, threads[t].st.res)]
    /\ UNCHANGED <<constraints, phase, strictTypes, call, prev, pool, doc>>
    /\ UNCHANGED resultsVars
    /\ UNCHANGED arenaVars

\* Validator::validate returns to thread t
Return(t) ==
    /\ threads[t].status = "running"
    /\ threads[t].i > Len(constraints[Root])
    /\ \A u \in Threads : threads[u].status # "crashed"
    /\ threads' = [threads EXCEPT ![t].status = "done",
                                  ![t].ret = IF threads[t].allTrue THEN "true" ELSE "false"]
    /\ UNCHANGED <<constraints, phase, strictTypes, call, prev, pool, doc>>
    /\ UNCHANGED resultsVars
    /\ UNCHANGED arenaVars

InitConc ==
    /\ InitResults
    /\ InitValidator
    /\ InitArena
    /\ pool \in Pools
    /\ doc = JNull
    /\ threads = [t \in Threads |-> IdleThread]

NextConc ==
    \/ \E constraint \in pool : addConstraint(constraint)
    \/ NewValidator
    \/ \E t \in Threads, target \in ConcDocs : Begin(t, target)
    \/ \E t \in Threads : Step(t)
    \/ \E t \in Threads : Return(t)

SpecConc == InitConc /\ [][NextConc]_vars

\* C10: validation never modifies the Subschema graph, and two validations
\* of different documents against the same Schema, each with its own sink
\* and interleaved in any order, return the booleans and the error sequences
\* they return when run one after the other.
C10_InterleavedAsSequential ==
    /\ [](\A t \in Threads :
            threads[t].status = "done" =>
                LET alone == Run(threads[t].target, threads[t].strict, TRUE, "fault", <<>>)
                IN /\ ~alone.st.crash
                   /\ (threads[t].ret = "true") <=> alone.ok
                   /\ threads[t].st.res = alone.st.res)
    /\ [][phase = "ready" => constraints' = constraints]_vars

\* Both threads have returned, with different results and errors recorded,
\* after each ran steps while the other was inside its loop
C10_Witness ==
    /\ \A t \in Threads : threads[t].status = "done" /\ threads[t].overlap
    /\ threads[1].ret # threads[2].ret
    /\ \E t \in Threads : Len(threads[t].st.res) >= 2
    /\ Len(constraints[Root]) = MaxConstraints

----------------------------------------------------------------------------
(* ValidationResults on its own: a caller pushing and popping errors *)

QueuePaths == {<<>>, <<[kind |-> "kObject", name |-> <<"a">>]>>}

QueueErrors == {MakeError(<<>>, "first"), MakeError(<<>>, "second")}

\* ValidationResults::pushError(const Error &)
PushErrorCopy(error) ==
    /\ Len(pushed) < MaxErrors
    /\ m_errors' = pushBack(m_errors, error)
    /\ pushed' = Append(pushed, error)
    /\ popRet' = "none"
    /\ UNCHANGED <<popped, lastPath>>
    /\ UNCHANGED <<validatorVars, arenaVars, threads>>

\* ValidationResults::pushError(const Path &, const std::string &)
PushError(path, description) ==
    /\ Len(pushed) < MaxErrors
    /\ m_errors' = pushBack(m_errors, MakeError(path, description))
    /\ pushed' = Append(pushed, MakeError(path, description))
    /\ lastPath' = path
    /\ popRet' = "none"
    /\ UNCHANGED popped
    /\ UNCHANGED <<validatorVars, arenaVars, threads>>

\* ValidationResults::popError
PopError ==
    /\ IF m_errors = <<>>
       THEN /\ popRet' = "false"
            /\ UNCHANGED <<m_errors, popped>>
       ELSE /\ popped' = Append(popped, front(m_errors))
            /\ m_errors' = popFront(m_errors)
            /\ popRet' = "true"
    /\ UNCHANGED <<pushed, lastPath>>
    /\ UNCHANGED <<validatorVars, arenaVars, threads>>

InitQueue ==
    /\ InitResults
    /\ InitValidator
    /\ InitArena
    /\ pool = PoolCombinators
    /\ doc = JNull
    /\ threads = <<>>

NextQueue ==
    \/ \E error \in QueueErrors : PushErrorCopy(error)
    \/ \E path \in QueuePaths : PushError(path, "third")
    \/ PopError

SpecQueue == InitQueue /\ [][NextQueue]_vars

\* One error reported at any Path on an empty queue, then drained
NextPointer ==
    \/ /\ m_errors = <<>>
       /\ pushed = <<>>
       /\ \E path \in Paths : PushError(path, "reported")
    \/ PopError

SpecPointer == InitQueue /\ [][NextPointer]_vars

----------------------------------------------------------------------------
(* Properties of ValidationResults *)

\* C6: ValidationResults is a FIFO queue: the errors handed out by the
\* successful popError calls, followed by the errors still queued, are
\* exactly the errors pushed, in the order they were pushed (none dropped,
\* duplicated or reordered); and a popError that returned false found the
\* queue empty and left it empty.
C6_Fifo ==
    /\ popped \o m_errors = pushed
    /\ popRet = "false" => m_errors = <<>>
    /\ popRet = "true" => popped # <<>>

\* Two different errors and a duplicate were pushed, one was popped while
\* others were still queued, and a later popError found the queue empty
C6_Witness ==
    /\ Len(pushed) = MaxErrors
    /\ pushed[1] # pushed[2]
    /\ pushed[2] = pushed[3]
    /\ Len(popped) = Len(pushed)
    /\ popRet = "false"

\* C7: for the Path given to pushError, the recorded jsonPointer split into
\* reference tokens and unescaped ('~1' to '/', then '~0' to '~') yields
\* exactly the names of the Path's segments in order; the recorded context
\* is the '<root>' sentinel followed by one entry per segment in the same
\* order; also for names holding '/' or '~'; and the empty Path gives the
\* empty jsonPointer and the context ['<root>'].
C7_PointerMatchesPath ==
    m_errors # <<>> =>
        LET error == m_errors[Len(m_errors)]
            parsed == referenceTokens(error.jsonPointer)
            \* the text between the brackets (and quotes) of a context entry
            StripContextEntry(entry, kind) ==
                IF kind = "kObject" THEN SubSeq(entry, 3, Len(entry) - 2)
                ELSE SubSeq(entry, 2, Len(entry) - 1)
        IN /\ ~parsed.err
           /\ parsed.tokens = [i \in 1..Len(lastPath) |-> lastPath[i].name]
           /\ Len(error.context) = Len(lastPath) + 1
           /\ error.context[1] = RootSentinel
           /\ \A i \in 1..Len(lastPath) :
                  StripContextEntry(error.context[i + 1], lastPath[i].kind) = lastPath[i].name
           /\ lastPath = <<>> =>
                  (error.jsonPointer = <<>> /\ error.context = <<RootSentinel>>)

\* An error was pushed for a Path whose names hold '~', '/' and the text "~1"
C7_Witness ==
    /\ m_errors # <<>>
    /\ Len(lastPath) = 2
    /\ lastPath[1].name = <<"~", "1">>
    /\ lastPath[2].name = <<"/">>
    /\ lastPath[1].kind = "kObject"
    /\ lastPath[2].kind = "kArray"

====
